---- MODULE Spec2Model ----
(***************************************************************************)
(* PulsarV2 real-time processing core.                                     *)
(*                                                                         *)
(*   SpecSlot   : rt_processing/callback.rs, CallbackSlot: one real-time   *)
(*                thread calling process_realtime, control threads calling *)
(*                swap_processor / with_processor_mut / locking a          *)
(*                processor_handle.                                        *)
(*   SpecPeriodic : the same slot with the real-time thread calling every  *)
(*                period, processor.lock() as a spin loop, and the fair    *)
(*                scheduling of the threads.                               *)
(*   SpecRouter : rt_processing/routing.rs, Router: add_source,            *)
(*                clear_sources, process.                                  *)
(*   SpecRouterSeq : the Router with its sources told apart by the order   *)
(*                in which they were added.                                *)
(*   SpecEnvelope : rt_processing/waveform/envelopes.rs, ADSREnvelope and  *)
(*                the envelope part of EnvelopedSource::fill_buffer.       *)
(*   SpecEnveloped : the same envelope under EnvelopedSource::fill_buffer  *)
(*                with its auto-retrigger.                                 *)
(*   SpecMonitor : rt_processing/performance.rs, PerformanceMonitor with   *)
(*                recorder threads, snapshot and reset_all.                *)
(*   SpecOsc    : rt_processing/waveform/oscillators.rs, Oscillator.       *)
(*   SpecNoise  : rt_processing/waveform/noise.rs, two WhiteNoise          *)
(*                generators side by side.                                 *)
(*   SpecBrown  : BrownNoise over long runs of its generator.              *)
(*   SpecBurst  : BurstNoise over long runs of its generator.              *)
(*   SpecGen    : stop, start and reset of White, Pink and Brown noise.    *)
(*   SpecPan    : rt_processing/routing.rs, Pan::gains.                    *)
(*                                                                         *)
(* Samples are exact integers (fixed point), so sums are exact.            *)
(***************************************************************************)
EXTENDS Integers, Sequences, FiniteSets, TLC

(***************************************************************************)
(* Bounds of the model                                                     *)
(***************************************************************************)
\* longest output buffer handed to process_realtime
MaxLen == 4
\* number of process_realtime calls explored
MaxCalls == 2
\* number of processors ever boxed for swap_processor
MaxProcs == 2
\* number of control threads
NumCtl == 2
\* largest channel count configured on the slot
MaxChannels == 2

\* what an output buffer holds before the call (stale data of the transport)
Stale == -1
\* what a processor caught in the middle of a mutation renders
Torn == -2

CtlThreads == 1..NumCtl

VARIABLES
    \* ---- CallbackSlot (callback.rs 35-46)
    lock,           \* spin::Mutex flag of `processor`
    processor,      \* the boxed processor held by the slot
    sample_clock,   \* AtomicU64 frame counter
    slot_channels,  \* channels
    \* ---- threads
    rt,             \* the real-time thread inside process_realtime
    ctl,            \* control threads
    \* ---- history
    next_id,        \* processors boxed so far
    retired,        \* processors replaced by a swap_processor that returned
    calls,          \* process_realtime calls completed
    frames_total,   \* frames of the completed calls
    \* ---- Router (routing.rs 54-61) and its collaborators
    router,         \* channels, num_buses, scratch, sources
    r_output,       \* the caller's interleaved output buffer
    perf,           \* the PerformanceMonitor handed to Router::process
    r_last,         \* history: the last Router operation and its locals
    \* ---- ADSREnvelope (envelopes.rs 16-37)
    env,            \* the envelope's fields
    env_obs,        \* history: the last envelope operation and what it returned
    \* ---- PerformanceMonitor (performance.rs 35-57)
    mon,            \* the monitor's atomics
    mon_thr,        \* threads inside record_callback_duration_nanos / guards
    mon_obs,        \* history: durations recorded, the last snapshot
    \* ---- Oscillator (oscillators.rs 6-13)
    oscillator,     \* the oscillator's fields
    osc_obs,        \* history: the last oscillator operation
    \* ---- WhiteNoise (noise.rs 35-39)
    noise,          \* two generators, each with its own fields
    noise_obs,      \* history: each generator's seed, calls and samples
    \* ---- Pan (routing.rs 21-24)
    panning,        \* a Pan: its position and its law
    pan_obs         \* history: the last Pan operation and what it returned

slotVars == <<lock, processor, sample_clock, slot_channels, rt, ctl,
              next_id, retired, calls, frames_total>>

routerVars == <<router, r_output, perf, r_last>>

envVars == <<env, env_obs>>

monVars == <<mon, mon_thr, mon_obs>>

oscVars == <<oscillator, osc_obs>>

noiseVars == <<noise, noise_obs>>

panVars == <<panning, pan_obs>>

vars == <<lock, processor, sample_clock, slot_channels, rt, ctl,
          next_id, retired, calls, frames_total,
          router, r_output, perf, r_last,
          env, env_obs, mon, mon_thr, mon_obs, oscillator, osc_obs,
          noise, noise_obs, panning, pan_obs>>

(***************************************************************************)
(* AudioCallback implementors                                              *)
(***************************************************************************)
\* SilentProcessor, and a processor with one parameter that writes a
\* constant sample derived from its identity and parameter.
Box(kind, id) == [kind |-> kind, id |-> id, param |-> 0, torn |-> FALSE]

\* the sample process() writes
ProcessSample(p) ==
    IF p.torn THEN Torn
    ELSE IF p.kind = "silent" THEN 0
    ELSE 10 * p.id + p.param + 1

\* how many samples process(output, sample_rate, channels, frames) writes:
\* SilentProcessor fills the whole slice, the other fills frames * channels
ProcessLen(p, len, channels, frames) ==
    IF p.kind = "silent" THEN len ELSE frames * channels

(***************************************************************************)
(* CallbackSlot                                                            *)
(***************************************************************************)
\* output.len() / self.channels
FrameCount(len, channels) == len \div channels

\* `0 => return false`
\* (variant: no early return)
NoFramesNever(frames) == FALSE
NoFrames(frames) == frames = 0

\* sample_clock.fetch_add(frames)
\* (variant: the counter is not advanced)
FetchAddNothing(clock, frames) == clock
FetchAdd(clock, frames) == clock + frames

\* processor.try_lock(): compare-and-swap of the flag, Some(guard) iff free
\* (variant: the guard is handed out whatever the flag)
TryLockIgnoresFlag(flag) == TRUE
TryLockSucceeds(flag) == flag = FALSE

\* processor.lock(): spins until the compare-and-swap succeeds
\* (variant: the guard is handed out whatever the flag)
SpinLockIgnoresFlag(flag) == TRUE
SpinLockAcquires(flag) == flag = FALSE

\* output.fill(0.0)
\* (variant: the buffer is left as it was)
SilenceFillNothing(out) == out
SilenceFill(out) == [i \in DOMAIN out |-> 0]

\* *guard = new_processor
\* (variant: the new processor is dropped instead)
ReplaceKeepsOld(old, new) == old
Replace(old, new) == new

RtIdle == [pc |-> "idle", output |-> <<>>, frames |-> 0, ret |-> "none",
           proc |-> Box("silent", 0), idx |-> 0, steps |-> 0, attempts |-> 0,
           contended |-> FALSE, invoked |-> 0, clock0 |-> 0, channels |-> 0]

CtlIdle == [pc |-> "idle", new |-> Box("silent", 0), old |-> 0]

InCritical(t) == ctl[t].pc \in {"swap_locked", "swap_stored", "mut_locked",
                                "mut_mid", "mut_done", "hnd_locked"}

InSlotCall(t) == ctl[t].pc \in {"swap_locked", "swap_stored",
                                "mut_locked", "mut_mid", "mut_done"}

\* process_realtime(output): entry, frame count, early return, fetch_add
RTEnter ==
    /\ rt.pc = "idle"
    /\ calls < MaxCalls
    /\ \E len \in 0..MaxLen :
         LET out == [i \in 1..len |-> Stale]
             frames == FrameCount(len, slot_channels)
             call == [RtIdle EXCEPT !.output = out, !.frames = frames,
                                    !.steps = 1, !.clock0 = sample_clock,
                                    !.channels = slot_channels]
         IN  IF NoFrames(frames)
             THEN /\ rt' = [call EXCEPT !.ret = "false"]
                  /\ calls' = calls + 1
                  /\ frames_total' = frames_total
                  /\ UNCHANGED sample_clock
             ELSE /\ rt' = [call EXCEPT !.pc = "clocked"]
                  /\ sample_clock' = FetchAdd(sample_clock, frames)
                  /\ UNCHANGED <<calls, frames_total>>
    /\ UNCHANGED <<lock, processor, slot_channels, ctl, next_id, retired>>

\* (variant: waits for the lock instead of trying once)
RTTryLockBlocking ==
    /\ rt.pc = "clocked"
    /\ lock = FALSE
    /\ lock' = TRUE
    /\ rt' = [rt EXCEPT !.pc = "process", !.proc = processor,
                        !.steps = @ + 1, !.attempts = @ + 1,
                        !.contended = lock, !.invoked = @ + 1]
    /\ UNCHANGED <<processor, sample_clock, slot_channels, ctl, next_id,
                   retired, calls, frames_total>>

\* if let Some(guard) = self.processor.try_lock() { .. } else { fill; false }
RTTryLock ==
    /\ rt.pc = "clocked"
    /\ IF TryLockSucceeds(lock)
       THEN /\ lock' = TRUE
            /\ rt' = [rt EXCEPT !.pc = "process", !.proc = processor,
                                !.steps = @ + 1, !.attempts = @ + 1,
                                !.contended = lock, !.invoked = @ + 1]
            /\ UNCHANGED <<calls, frames_total>>
       ELSE /\ lock' = lock
            /\ rt' = [rt EXCEPT !.pc = "idle", !.ret = "false",
                                !.output = SilenceFill(@),
                                !.steps = @ + 1, !.attempts = @ + 1,
                                !.contended = lock]
            /\ calls' = calls + 1
            /\ frames_total' = frames_total + Len(rt.output) \div slot_channels
    /\ UNCHANGED <<processor, sample_clock, slot_channels, ctl, next_id, retired>>

\* guard.process(output, sample_rate, channels, frames): one sample per step
RTProcessStep ==
    /\ rt.pc = "process"
    /\ rt.idx < ProcessLen(processor, Len(rt.output), slot_channels, rt.frames)
    /\ rt' = [rt EXCEPT !.output[rt.idx + 1] = ProcessSample(processor),
                        !.idx = @ + 1, !.steps = @ + 1]
    /\ UNCHANGED <<lock, processor, sample_clock, slot_channels, ctl, next_id,
                   retired, calls, frames_total>>

\* process() returned: the guard is dropped, the call returns true
RTReturn ==
    /\ rt.pc = "process"
    /\ rt.idx >= ProcessLen(processor, Len(rt.output), slot_channels, rt.frames)
    /\ lock' = FALSE
    /\ rt' = [rt EXCEPT !.pc = "idle", !.ret = "true", !.steps = @ + 1]
    /\ calls' = calls + 1
    /\ frames_total' = frames_total + Len(rt.output) \div slot_channels
    /\ UNCHANGED <<processor, sample_clock, slot_channels, ctl, next_id, retired>>

RTStep == RTTryLock \/ RTProcessStep \/ RTReturn

\* swap_processor(new_processor)
\* let mut guard = self.processor.lock(): the call spins until it holds the lock
SwapLock(t) ==
    /\ ctl[t].pc = "idle"
    /\ next_id < MaxProcs
    /\ SpinLockAcquires(lock)
    /\ lock' = TRUE
    /\ next_id' = next_id + 1
    /\ ctl' = [ctl EXCEPT ![t] = [pc |-> "swap_locked",
                                  new |-> Box("tone", next_id + 1), old |-> 0]]
    /\ UNCHANGED <<processor, sample_clock, slot_channels, rt, retired,
                   calls, frames_total>>

SwapStore(t) ==
    /\ ctl[t].pc = "swap_locked"
    /\ processor' = Replace(processor, ctl[t].new)
    /\ ctl' = [ctl EXCEPT ![t].pc = "swap_stored", ![t].old = processor.id]
    /\ UNCHANGED <<lock, sample_clock, slot_channels, rt, next_id, retired,
                   calls, frames_total>>

SwapUnlock(t) ==
    /\ ctl[t].pc = "swap_stored"
    /\ lock' = FALSE
    /\ retired' = retired \cup {ctl[t].old}
    /\ ctl' = [ctl EXCEPT ![t] = CtlIdle]
    /\ UNCHANGED <<processor, sample_clock, slot_channels, rt, next_id,
                   calls, frames_total>>

\* with_processor_mut(f)
MutLock(t) ==
    /\ ctl[t].pc = "idle"
    /\ SpinLockAcquires(lock)
    /\ lock' = TRUE
    /\ ctl' = [ctl EXCEPT ![t].pc = "mut_locked"]
    /\ UNCHANGED <<processor, sample_clock, slot_channels, rt, next_id, retired,
                   calls, frames_total>>

\* f(&mut guard): the closure's first write leaves the processor half updated
MutBegin(t) ==
    /\ ctl[t].pc = "mut_locked"
    /\ processor' = [processor EXCEPT !.torn = TRUE]
    /\ ctl' = [ctl EXCEPT ![t].pc = "mut_mid"]
    /\ UNCHANGED <<lock, sample_clock, slot_channels, rt, next_id, retired,
                   calls, frames_total>>

\* the closure's last write
MutEnd(t) ==
    /\ ctl[t].pc = "mut_mid"
    /\ processor' = [processor EXCEPT !.torn = FALSE, !.param = 1 - @]
    /\ ctl' = [ctl EXCEPT ![t].pc = "mut_done"]
    /\ UNCHANGED <<lock, sample_clock, slot_channels, rt, next_id, retired,
                   calls, frames_total>>

MutUnlock(t) ==
    /\ ctl[t].pc = "mut_done"
    /\ lock' = FALSE
    /\ ctl' = [ctl EXCEPT ![t] = CtlIdle]
    /\ UNCHANGED <<processor, sample_clock, slot_channels, rt, next_id, retired,
                   calls, frames_total>>

\* processor_handle(): a clone of the Arc, locked by its holder
HandleLock(t) ==
    /\ ctl[t].pc = "idle"
    /\ SpinLockAcquires(lock)
    /\ lock' = TRUE
    /\ ctl' = [ctl EXCEPT ![t].pc = "hnd_locked"]
    /\ UNCHANGED <<processor, sample_clock, slot_channels, rt, next_id, retired,
                   calls, frames_total>>

HandleUnlock(t) ==
    /\ ctl[t].pc = "hnd_locked"
    /\ lock' = FALSE
    /\ ctl' = [ctl EXCEPT ![t] = CtlIdle]
    /\ UNCHANGED <<processor, sample_clock, slot_channels, rt, next_id, retired,
                   calls, frames_total>>

\* set_runtime_config(&mut self, ..): no call on the slot is in flight
SetRuntimeConfig ==
    /\ rt.pc = "idle"
    /\ \A t \in CtlThreads : ~InSlotCall(t)
    /\ \E c \in 1..MaxChannels : c # slot_channels /\ slot_channels' = c
    /\ UNCHANGED <<lock, processor, sample_clock, rt, ctl, next_id, retired,
                   calls, frames_total>>

CtlStep(t) ==
    \/ SwapLock(t) \/ SwapStore(t) \/ SwapUnlock(t)
    \/ MutLock(t) \/ MutBegin(t) \/ MutEnd(t) \/ MutUnlock(t)
    \/ HandleLock(t) \/ HandleUnlock(t)

(***************************************************************************)
(* Waveform sources behind the Router                                      *)
(*                                                                         *)
(* The table samples are in units of 1/SINE_TABLE_SIZE and amplitudes in   *)
(* halves.  The table is scaled down from 8192 entries.                    *)
(*                                                                         *)
(* Phases, frequencies over sample rates and phase increments are f32      *)
(* values: here binary floating-point numbers with FloatBits significant   *)
(* bits (scaled down from 24), written as integers in units of             *)
(* 1/PhaseUnits of a cycle, the smallest magnitude the model tells apart.  *)
(* Every f32 operation returns the exact result rounded to the nearest     *)
(* representable number, ties to the even significand.                     *)
(***************************************************************************)
SINE_TABLE_SIZE == 4

\* significant bits of an f32
FloatBits == 3
\* one cycle of phase
PhaseUnits == 32

RECURSIVE Pow2(_)
Pow2(k) == IF k = 0 THEN 1 ELSE 2 * Pow2(k - 1)

\* spacing of the representable numbers around magnitude a
RECURSIVE Ulp(_, _)
Ulp(a, step) ==
    IF a \div step < Pow2(FloatBits) THEN step ELSE Ulp(a, 2 * step)

RoundF32(x) ==
    LET a == IF x < 0 THEN -x ELSE x
        step == Ulp(a, 1)
        lower == (a \div step) * step
        rem == a - lower
        up == \/ 2 * rem > step
              \/ 2 * rem = step /\ (a \div step) % 2 = 1
        r == IF up THEN lower + step ELSE lower
    IN  IF x < 0 THEN -r ELSE r

\* get_sawtooth_table / get_square_table / get_triangle_table, entry k
TableSample(waveform, k) ==
    CASE waveform = "Sawtooth" -> 2 * k - SINE_TABLE_SIZE
      [] waveform = "Square" ->
            IF 2 * k < SINE_TABLE_SIZE THEN SINE_TABLE_SIZE ELSE -SINE_TABLE_SIZE
      [] waveform = "Triangle" ->
            IF 4 * k < SINE_TABLE_SIZE THEN 4 * k
            ELSE IF 4 * k < 3 * SINE_TABLE_SIZE THEN 2 * SINE_TABLE_SIZE - 4 * k
            ELSE 4 * k - 4 * SINE_TABLE_SIZE

\* interpolated_lookup: the index is the scaled phase cut to an integer (0
\* for a negative phase) and masked into the table; the sample is moved
\* towards the next entry by the fraction that was cut off (nothing at a
\* phase that is a whole table step), to the sample unit below
TableLookup(waveform, phase) ==
    LET scaled == IF phase < 0 THEN 0 ELSE phase * SINE_TABLE_SIZE
        index == (scaled \div PhaseUnits) % SINE_TABLE_SIZE
        frac == IF phase < 0 THEN phase * SINE_TABLE_SIZE
                ELSE scaled % PhaseUnits
        sample1 == TableSample(waveform, index)
        sample2 == TableSample(waveform, (index + 1) % SINE_TABLE_SIZE)
    IN  sample1 + (frac * (sample2 - sample1)) \div PhaseUnits

\* f32::floor
Floor(phase) == (phase \div PhaseUnits) * PhaseUnits

\* normalize_phase: phase - phase.floor()
normalize_phase(phase) == RoundF32(phase - Floor(phase))

\* phase_increment: frequency / sample_rate
\* (the sample rates of the model divide PhaseUnits)
phase_increment(frequency, sample_rate) ==
    RoundF32((frequency * PhaseUnits) \div sample_rate)

\* current_phase += phase_inc, frame after frame
RECURSIVE AdvancePhase(_, _, _)
AdvancePhase(phase, inc, frames) ==
    IF frames = 0 THEN phase
    ELSE AdvancePhase(RoundF32(phase + inc), inc, frames - 1)

\* Oscillator::new(waveform, frequency) with amplitude 0.5, then stop() or not
NewOscillator(waveform, frequency, active) ==
    [kind |-> "osc", waveform |-> waveform, frequency |-> frequency,
     amplitude |-> 1, phase |-> 0, active |-> active]

\* a routing source that renders a different signal into every channel
StereoSource ==
    [kind |-> "stereo", waveform |-> "none", frequency |-> 0,
     amplitude |-> 0, phase |-> 0, active |-> TRUE]

\* Oscillator::fill_buffer(output, sample_rate, channels, frame_count):
\* the interleaved buffer it leaves and the oscillator afterwards
OscFillBuffer(osc, sample_rate, channels, frame_count) ==
    IF ~osc.active
    THEN [buf |-> [j \in 1..(frame_count * channels) |-> 0], source |-> osc]
    ELSE LET inc == phase_increment(osc.frequency, sample_rate)
             sample(f) == TableLookup(osc.waveform,
                                      AdvancePhase(osc.phase, inc, f))
                            * osc.amplitude
         IN  [buf |-> [j \in 1..(frame_count * channels) |->
                          sample((j - 1) \div channels)],
              source |-> [osc EXCEPT !.phase = normalize_phase(
                            AdvancePhase(@, inc, frame_count))]]

\* Oscillator::next_sample(sample_rate): the sample and the oscillator
\* afterwards; `active` is not looked at
NextSample(osc, sample_rate) ==
    [sample |-> TableLookup(osc.waveform, osc.phase) * osc.amplitude,
     source |-> [osc EXCEPT !.phase = normalize_phase(RoundF32(
                    @ + phase_increment(osc.frequency, sample_rate)))]]

\* set_phase / with_phase
set_phase(osc, phase) == [osc EXCEPT !.phase = normalize_phase(phase)]

\* the sample rate the Router hands to render
RouterSampleRate == 4

\* WaveformAdapter::render: fill the interleaved temp buffer, de-interleave
AdapterRender(src, channels, frames) ==
    LET filled == OscFillBuffer(src, RouterSampleRate, channels, frames)
    IN  [views |-> [ch \in 1..channels |-> [i \in 1..frames |->
                       filled.buf[(i - 1) * channels + ch]]],
         source |-> filled.source]

\* routing::AudioSource::render into zeroed per-channel views
Render(src, channels, frames) ==
    IF src.kind = "osc"
    THEN AdapterRender(src, channels, frames)
    ELSE [views |-> [ch \in 1..channels |-> [i \in 1..frames |-> 4 * ch + i]],
          source |-> src]

(***************************************************************************)
(* Pan (gains in thousandths; value in halves)                             *)
(***************************************************************************)
\* cos(k * pi / 8), k = 0..4, rounded to thousandths
CosEighths == <<1000, 924, 707, 383, 0>>

\* Pan::gains
\* (variant: every law is computed as EqualPower)
PanGainsAlwaysEqualPower(pan) ==
    <<CosEighths[pan.value + 3], CosEighths[3 - pan.value]>>
\* (variant: every law is computed as Linear)
PanGainsAlwaysLinear(pan) ==
    <<250 * (2 - pan.value), 250 * (2 + pan.value)>>
PanGains(pan) ==
    IF pan.law = "Linear"
    THEN <<250 * (2 - pan.value), 250 * (2 + pan.value)>>
    ELSE <<CosEighths[pan.value + 3], CosEighths[3 - pan.value]>>

(***************************************************************************)
(* PerformanceMonitor, as far as Router::process drives it                 *)
(***************************************************************************)
NewMonitor == [frames_processed |-> 0, callback_count |-> 0, recorded |-> 0,
               underrun_count |-> 0, overrun_count |-> 0]

\* scoped_callback(): increment_callback_count, then the guard
\* (variant: the guard is made without counting the callback)
ScopedCallbackUncounted(m) == m
ScopedCallback(m) == [m EXCEPT !.callback_count = @ + 1]

\* add_frames_processed(frames)
\* (variant: the counter goes up by one per call, whatever the frame count)
AddFramesProcessedByOne(m, frames) == [m EXCEPT !.frames_processed = @ + 1]
AddFramesProcessed(m, frames) == [m EXCEPT !.frames_processed = @ + frames]

\* RealtimeGuard::drop: record_callback_duration_nanos(elapsed)
GuardDrop(m) == [m EXCEPT !.recorded = @ + 1]

(***************************************************************************)
(* Exact fractions n/d (d > 0, lowest terms) for envelope values            *)
(***************************************************************************)
RECURSIVE GCD(_, _)
GCD(a, b) == IF b = 0 THEN a ELSE GCD(b, a % b)

Rat(n, d) ==
    LET g == GCD(IF n < 0 THEN -n ELSE n, d)
    IN  [n |-> n \div g, d |-> d \div g]

Zero == Rat(0, 1)
One == Rat(1, 1)

RMul(x, y) == Rat(x.n * y.n, x.d * y.d)
RSub(x, y) == Rat(x.n * y.d - y.n * x.d, x.d * y.d)
RLe(x, y) == x.n * y.d <= y.n * x.d

\* f32::clamp(0.0, 1.0)
Clamp01(x) == IF RLe(x, Zero) THEN Zero ELSE IF RLe(One, x) THEN One ELSE x

(***************************************************************************)
(* ADSREnvelope                                                            *)
(*                                                                         *)
(* Times are in half seconds, sample rates in samples per second.          *)
(***************************************************************************)
\* (time * sample_rate) as u32: truncates, and a negative product gives 0
SampleCount(time, sample_rate) ==
    IF time * sample_rate < 0 THEN 0 ELSE (time * sample_rate) \div 2

\* ADSREnvelope::new; sample_rate starts at a default that the first
\* get_value replaces
NewEnvelope(attack_time, decay_time, sustain_level, release_time, rate) ==
    [attack_time |-> attack_time,
     decay_time |-> decay_time,
     sustain_level |-> Clamp01(sustain_level),
     release_time |-> release_time,
     state |-> "Idle",
     current_value |-> Zero,
     sample_rate |-> rate,
     attack_samples |-> 0,
     decay_samples |-> 0,
     release_samples |-> 0,
     current_sample |-> 0,
     note_on |-> FALSE,
     note_off_triggered |-> FALSE]

update_sample_counts(e) ==
    [e EXCEPT !.attack_samples = SampleCount(e.attack_time, e.sample_rate),
              !.decay_samples = SampleCount(e.decay_time, e.sample_rate),
              !.release_samples = SampleCount(e.release_time, e.sample_rate)]

NoteOn(e) ==
    update_sample_counts([e EXCEPT !.note_on = TRUE,
                                   !.note_off_triggered = FALSE,
                                   !.state = "Attack",
                                   !.current_sample = 0])

\* (variant: the guard is dropped, every note_off restarts the release)
NoteOffAlways(e) ==
    [e EXCEPT !.note_on = FALSE, !.note_off_triggered = TRUE,
              !.state = "Release", !.current_sample = 0]
NoteOff(e) ==
    IF e.note_on /\ ~e.note_off_triggered
    THEN [e EXCEPT !.note_on = FALSE, !.note_off_triggered = TRUE,
                   !.state = "Release", !.current_sample = 0]
    ELSE e

\* the Attack arm of process_sample
\* (variant: the stage ends one call late)
AttackSampleLate(e) ==
    IF e.attack_samples = 0
    THEN [e EXCEPT !.current_value = One, !.state = "Decay",
                   !.current_sample = 0]
    ELSE IF e.current_sample + 1 > e.attack_samples
         THEN [e EXCEPT !.current_value = One, !.state = "Decay",
                        !.current_sample = 0]
         ELSE [e EXCEPT !.current_value =
                            Rat(e.current_sample, e.attack_samples),
                        !.current_sample = @ + 1]
AttackSample(e) ==
    IF e.attack_samples = 0
    THEN [e EXCEPT !.current_value = One, !.state = "Decay",
                   !.current_sample = 0]
    ELSE IF e.current_sample + 1 >= e.attack_samples
         THEN [e EXCEPT !.current_value = One, !.state = "Decay",
                        !.current_sample = 0]
         ELSE [e EXCEPT !.current_value =
                            Rat(e.current_sample, e.attack_samples),
                        !.current_sample = @ + 1]

\* the Decay arm
\* (variant: a timed decay follows its ramp and never counts its samples)
DecaySampleNeverCounts(e) ==
    IF e.decay_samples = 0
    THEN [e EXCEPT !.current_value = e.sustain_level, !.state = "Sustain"]
    ELSE [e EXCEPT !.current_value =
                      RSub(One, RMul(Rat(e.current_sample, e.decay_samples),
                                     RSub(One, e.sustain_level)))]
DecaySample(e) ==
    IF e.decay_samples = 0
    THEN [e EXCEPT !.current_value = e.sustain_level, !.state = "Sustain"]
    ELSE LET progress == Rat(e.current_sample, e.decay_samples)
             ramp == RSub(One, RMul(progress, RSub(One, e.sustain_level)))
         IN  IF e.current_sample + 1 >= e.decay_samples
             THEN [e EXCEPT !.current_value = e.sustain_level,
                            !.current_sample = @ + 1,
                            !.state = "Sustain"]
             ELSE [e EXCEPT !.current_value = ramp,
                            !.current_sample = @ + 1]

\* the Release arm: start_level is read from current_value on every call
\* (variant: a release of no samples stays in Release)
ReleaseSampleZeroLingers(e) ==
    IF e.release_samples = 0
    THEN [e EXCEPT !.current_value = Zero]
    ELSE LET start_level == IF e.note_off_triggered THEN e.current_value
                            ELSE e.sustain_level
             progress == Rat(e.current_sample, e.release_samples)
             ramp == RMul(start_level, RSub(One, progress))
         IN  IF e.current_sample + 1 >= e.release_samples
             THEN [e EXCEPT !.current_value = Zero,
                            !.current_sample = @ + 1,
                            !.state = "Finished"]
             ELSE [e EXCEPT !.current_value = ramp,
                            !.current_sample = @ + 1]
ReleaseSample(e) ==
    IF e.release_samples = 0
    THEN [e EXCEPT !.current_value = Zero, !.state = "Finished"]
    ELSE LET start_level == IF e.note_off_triggered THEN e.current_value
                            ELSE e.sustain_level
             progress == Rat(e.current_sample, e.release_samples)
             ramp == RMul(start_level, RSub(One, progress))
         IN  IF e.current_sample + 1 >= e.release_samples
             THEN [e EXCEPT !.current_value = Zero,
                            !.current_sample = @ + 1,
                            !.state = "Finished"]
             ELSE [e EXCEPT !.current_value = ramp,
                            !.current_sample = @ + 1]

\* (variant: a finished envelope falls back to Idle on the next sample)
ProcessSampleLeavesFinished(e) ==
    CASE e.state = "Idle" -> [e EXCEPT !.current_value = Zero]
      [] e.state = "Attack" -> AttackSample(e)
      [] e.state = "Decay" -> DecaySample(e)
      [] e.state = "Sustain" -> [e EXCEPT !.current_value = e.sustain_level]
      [] e.state = "Release" -> ReleaseSample(e)
      [] e.state = "Finished" -> [e EXCEPT !.current_value = Zero,
                                           !.state = "Idle"]
process_sample(e) ==
    CASE e.state = "Idle" -> [e EXCEPT !.current_value = Zero]
      [] e.state = "Attack" -> AttackSample(e)
      [] e.state = "Decay" -> DecaySample(e)
      [] e.state = "Sustain" -> [e EXCEPT !.current_value = e.sustain_level]
      [] e.state = "Release" -> ReleaseSample(e)
      [] e.state = "Finished" -> [e EXCEPT !.current_value = Zero]

\* get_value(sample_rate): the envelope after the call; the call returns
\* its current_value
GetValue(e, sample_rate) ==
    process_sample(IF e.sample_rate # sample_rate
                   THEN update_sample_counts([e EXCEPT
                                                !.sample_rate = sample_rate])
                   ELSE e)

is_active(e) == e.state \notin {"Idle", "Finished"}

\* (variant: the state is left as it is)
EnvResetKeepsState(e) ==
    [e EXCEPT !.current_value = Zero, !.current_sample = 0,
              !.note_on = FALSE, !.note_off_triggered = FALSE]
EnvReset(e) ==
    [e EXCEPT !.state = "Idle", !.current_value = Zero, !.current_sample = 0,
              !.note_on = FALSE, !.note_off_triggered = FALSE]

set_attack_time(e, attack_time) ==
    update_sample_counts([e EXCEPT !.attack_time = attack_time])

set_decay_time(e, decay_time) ==
    update_sample_counts([e EXCEPT !.decay_time = decay_time])

\* (variant: the level is stored unclamped)
SetSustainUnclamped(e, sustain_level) ==
    [e EXCEPT !.sustain_level = sustain_level]
set_sustain_level(e, sustain_level) ==
    [e EXCEPT !.sustain_level = Clamp01(sustain_level)]

set_release_time(e, release_time) ==
    update_sample_counts([e EXCEPT !.release_time = release_time])

\* EnvelopedSource::fill_buffer, as far as the envelope goes: the optional
\* note_on, then one get_value per frame
RECURSIVE EnvelopeValues(_, _, _, _)
EnvelopeValues(e, sample_rate, frames, acc) ==
    IF frames = 0 THEN [env |-> e, values |-> acc]
    ELSE LET e1 == GetValue(e, sample_rate)
         IN  EnvelopeValues(e1, sample_rate, frames - 1,
                            Append(acc, e1.current_value))

\* (variant: the retrigger does not look at auto_retrigger)
EnvFillBufferEager(e, auto_retrigger, source_active, sample_rate, frames) ==
    LET fired == source_active /\ ~is_active(e)
        run == EnvelopeValues(IF fired THEN NoteOn(e) ELSE e,
                              sample_rate, frames, <<>>)
    IN  [env |-> run.env, values |-> run.values, fired |-> fired]
EnvFillBuffer(e, auto_retrigger, source_active, sample_rate, frames) ==
    LET fired == auto_retrigger /\ source_active /\ ~is_active(e)
        run == EnvelopeValues(IF fired THEN NoteOn(e) ELSE e,
                              sample_rate, frames, <<>>)
    IN  [env |-> run.env, values |-> run.values, fired |-> fired]

(***************************************************************************)
(* Noise generators (waveform/noise.rs)                                    *)
(*                                                                         *)
(* A u32 is the pair <<hi, lo>> of its 16-bit halves, so that the          *)
(* wrapping arithmetic of the generator is computed at its full width.     *)
(* next_f32 keeps 16 significant bits of the state (scaled down from the   *)
(* 24 of an f32) and is in units of 1/Half; amplitudes are in tenths.      *)
(***************************************************************************)
LCG_MULTIPLIER == 1664525
LCG_INCREMENT == 1013904223
\* 2^16
Half == Pow2(16)

\* FastRng::new(seed): a zero seed is replaced by 1
FastRngNew(seed) == IF seed = <<0, 0>> THEN <<0, 1>> ELSE seed

\* FastRng::next_u32: state.wrapping_mul(1664525).wrapping_add(1013904223)
next_u32(state) ==
    LET low == state[2] * (LCG_MULTIPLIER % Half) + (LCG_INCREMENT % Half)
        high == state[1] * (LCG_MULTIPLIER % Half)
                + state[2] * (LCG_MULTIPLIER \div Half)
                + (LCG_INCREMENT \div Half) + (low \div Half)
    IN  <<high % Half, low % Half>>

\* FastRng::next_f32 on the state next_u32 left: state as f32 (rounded to
\* the nearest representable number, ties to even) times 1 / 2^32
next_f32(state) ==
    state[1] + (IF \/ 2 * state[2] > Half
                   \/ 2 * state[2] = Half /\ state[1] % 2 = 1
                THEN 1 ELSE 0)

\* FastRng::next_bipolar: (next_f32 - 0.5) * 2.0
next_bipolar(state) == 2 * next_f32(state) - Half

\* WhiteNoise::with_seed(seed); WhiteNoise::new() is with_seed(1)
WhiteWithSeed(seed) ==
    [rng |-> FastRngNew(seed), amplitude |-> 1, active |-> TRUE]

\* the frame loop of WhiteNoise::fill_buffer: one draw per frame, the
\* sample copied into every channel of the frame
\* (variant: one draw per channel of every frame)
RECURSIVE WhiteFramesPerSlot(_, _, _, _)
WhiteFramesPerSlot(g, channels, frame_count, buf) ==
    IF Len(buf) >= frame_count * channels
    THEN [buf |-> buf, source |-> g]
    ELSE LET state == next_u32(g.rng)
         IN  WhiteFramesPerSlot([g EXCEPT !.rng = state], channels,
                 frame_count,
                 Append(buf, next_bipolar(state) * g.amplitude))
RECURSIVE WhiteFrames(_, _, _, _)
WhiteFrames(g, channels, frame_count, buf) ==
    IF Len(buf) >= frame_count * channels
    THEN [buf |-> buf, source |-> g]
    ELSE LET state == next_u32(g.rng)
             sample == next_bipolar(state) * g.amplitude
         IN  WhiteFrames([g EXCEPT !.rng = state], channels, frame_count,
                         buf \o [ch \in 1..channels |-> sample])

\* WhiteNoise::fill_buffer(output, _sample_rate, channels, frame_count)
WhiteFillBuffer(g, channels, frame_count) ==
    IF ~g.active
    THEN [buf |-> [j \in 1..(frame_count * channels) |-> 0], source |-> g]
    ELSE WhiteFrames(g, channels, frame_count, <<>>)

\* WhiteNoise::stop / start / reset; reset seeds the generator with 1
WhiteStop(g) == [g EXCEPT !.active = FALSE]
WhiteStart(g) == [g EXCEPT !.active = TRUE]
WhiteReset(g) == [g EXCEPT !.rng = FastRngNew(<<0, 1>>), !.active = TRUE]

(***************************************************************************)
(* PinkNoise (noise.rs 114-211): seven WhiteNoise generators; coefficients *)
(* in hundredths, amplitude in tenths, the normalization 0.11 as 11        *)
(***************************************************************************)
\* the seeds 12345, 23456, 34567, 45678, 56789, 67890, 78901
PinkSeeds == <<(<<0, 12345>>), (<<0, 23456>>), (<<0, 34567>>), (<<0, 45678>>),
               (<<0, 56789>>), (<<1, 2354>>), (<<1, 13365>>)>>
PinkCoefficients == <<5, 99, 12, 92, 97, 6, 100>>

\* PinkNoise::new()
PinkNew ==
    [kind |-> "pink",
     generators |-> [i \in 1..7 |-> WhiteWithSeed(PinkSeeds[i])],
     amplitude |-> 1, active |-> TRUE]

\* PinkNoise::fill_buffer
\* (variant: the white generators run whether or not the generator is
\* stopped, and the output is zeroed)
PinkFillBufferRunsStopped(g, channels, frame_count) ==
    LET fills == [i \in 1..7 |->
                    WhiteFrames(g.generators[i], channels, frame_count, <<>>)]
    IN  [buf |-> [j \in 1..(frame_count * channels) |-> 0],
         source |-> [g EXCEPT !.generators =
                        [i \in 1..7 |-> fills[i].source]]]
PinkFillBuffer(g, channels, frame_count) ==
    IF ~g.active
    THEN [buf |-> [j \in 1..(frame_count * channels) |-> 0], source |-> g]
    ELSE LET fills == [i \in 1..7 |->
                         WhiteFillBuffer(g.generators[i], channels,
                                         frame_count)]
             mixed(j) == fills[1].buf[j] * PinkCoefficients[1]
                         + fills[2].buf[j] * PinkCoefficients[2]
                         + fills[3].buf[j] * PinkCoefficients[3]
                         + fills[4].buf[j] * PinkCoefficients[4]
                         + fills[5].buf[j] * PinkCoefficients[5]
                         + fills[6].buf[j] * PinkCoefficients[6]
                         + fills[7].buf[j] * PinkCoefficients[7]
         IN  [buf |-> [j \in 1..(frame_count * channels) |->
                          mixed(j) * (g.amplitude * 11)],
              source |-> [g EXCEPT !.generators =
                             [i \in 1..7 |-> fills[i].source]]]

\* PinkNoise::stop / start / reset, each passed on to the seven generators
PinkStop(g) ==
    [g EXCEPT !.active = FALSE,
              !.generators = [i \in 1..7 |-> WhiteStop(@[i])]]
PinkStart(g) ==
    [g EXCEPT !.active = TRUE,
              !.generators = [i \in 1..7 |-> WhiteStart(@[i])]]
PinkReset(g) ==
    [g EXCEPT !.active = TRUE,
              !.generators = [i \in 1..7 |-> WhiteReset(@[i])]]

(***************************************************************************)
(* BrownNoise (noise.rs 215-310): previous_sample in units of              *)
(* 1/BrownUnit, so that a white step next_bipolar * 0.1 is next_bipolar    *)
(* units; amplitude in hundredths                                          *)
(***************************************************************************)
BrownUnit == 10 * Half

\* BrownNoise::with_seed(seed).with_amplitude(amplitude);
\* BrownNoise::new() is with_seed(9876) with amplitude 0.05
BrownWithSeed(seed, amplitude) ==
    [kind |-> "brown", rng |-> FastRngNew(seed), previous_sample |-> 0,
     amplitude |-> amplitude, active |-> TRUE]

\* previous_sample *= 0.9999, rounded to the nearest unit, ties to even
Leak(x) ==
    LET q == x \div 10000
        r == x % 10000
    IN  IF r < 5000 THEN x - q
        ELSE IF r > 5000 THEN x - q - 1
        ELSE IF (x - q) % 2 = 0 THEN x - q ELSE x - q - 1

\* previous_sample.clamp(-1.0, 1.0)
\* (variant: the integrator is not clamped)
ClampUnitNothing(x) == x
ClampUnit(x) ==
    IF x < -BrownUnit THEN -BrownUnit
    ELSE IF x > BrownUnit THEN BrownUnit ELSE x

\* the frame loop of BrownNoise::fill_buffer
RECURSIVE BrownFrames(_, _, _, _)
BrownFrames(g, channels, frame_count, buf) ==
    IF Len(buf) >= frame_count * channels
    THEN [buf |-> buf, source |-> g]
    ELSE LET state == next_u32(g.rng)
             previous_sample ==
                 ClampUnit(Leak(g.previous_sample + next_bipolar(state)))
             sample == previous_sample * g.amplitude
         IN  BrownFrames([g EXCEPT !.rng = state,
                                   !.previous_sample = previous_sample],
                         channels, frame_count,
                         buf \o [ch \in 1..channels |-> sample])

\* BrownNoise::fill_buffer(output, _sample_rate, channels, frame_count)
BrownFillBuffer(g, channels, frame_count) ==
    IF ~g.active
    THEN [buf |-> [j \in 1..(frame_count * channels) |-> 0], source |-> g]
    ELSE BrownFrames(g, channels, frame_count, <<>>)

\* BrownNoise::reset: seed 9876, integrator 0
BrownReset(g) ==
    [g EXCEPT !.rng = FastRngNew(<<0, 9876>>), !.previous_sample = 0,
              !.active = TRUE]

(***************************************************************************)
(* BurstNoise (noise.rs 314-403): burst_probability in units of 1/Half,    *)
(* amplitude in tenths                                                     *)
(***************************************************************************)
\* BurstNoise::new().with_burst_probability(probability)
BurstNew(probability) ==
    [kind |-> "burst", rng |-> FastRngNew(<<0, 5432>>),
     burst_probability |-> probability, burst_duration |-> 0,
     burst_counter |-> 0, amplitude |-> 2, active |-> TRUE]

\* one frame of BurstNoise::fill_buffer: the generator afterwards, the
\* sample, and whether the frame took its sample from the generator
BurstFrame(g) ==
    LET drawn == next_u32(g.rng)
    IN  IF g.burst_counter > 0
        THEN [source |-> [g EXCEPT !.rng = drawn, !.burst_counter = @ - 1],
              sample |-> next_bipolar(drawn) * g.amplitude,
              gate |-> TRUE]
        ELSE IF next_f32(drawn) < g.burst_probability
        THEN LET chosen == next_u32(drawn)
                 duration == 10 + ((next_f32(chosen) * 990) \div Half)
                 state == next_u32(chosen)
             IN  [source |-> [g EXCEPT !.rng = state,
                                       !.burst_duration = duration,
                                       !.burst_counter = duration],
                  sample |-> next_bipolar(state) * g.amplitude,
                  gate |-> TRUE]
        ELSE [source |-> [g EXCEPT !.rng = drawn], sample |-> 0,
              gate |-> FALSE]

\* the frame loop of BurstNoise::fill_buffer
RECURSIVE BurstFrames(_, _, _, _, _)
BurstFrames(g, channels, frame_count, buf, gates) ==
    IF Len(buf) >= frame_count * channels
    THEN [buf |-> buf, source |-> g, gates |-> gates]
    ELSE LET f == BurstFrame(g)
         IN  BurstFrames(f.source, channels, frame_count,
                         buf \o [ch \in 1..channels |-> f.sample],
                         Append(gates, f.gate))

\* BurstNoise::fill_buffer(output, _sample_rate, channels, frame_count)
BurstFillBuffer(g, channels, frame_count) ==
    IF ~g.active
    THEN [buf |-> [j \in 1..(frame_count * channels) |-> 0], source |-> g,
          gates |-> <<>>]
    ELSE BurstFrames(g, channels, frame_count, <<>>, <<>>)

\* BurstNoise::reset
BurstReset(g) ==
    [g EXCEPT !.rng = FastRngNew(<<0, 5432>>), !.burst_duration = 0,
              !.burst_counter = 0, !.active = TRUE]

(***************************************************************************)
(* PerformanceMonitor: the atomics and the compare-and-retry loops          *)
(*                                                                         *)
(* u64 is scaled down to 0..U64_MAX.  The EMA is kept in units of          *)
(* 1/EmaUnit ns; ema_alpha is 1/alpha_inv.                                 *)
(***************************************************************************)
U64_MAX == 2

\* record_callback_duration_nanos calls and guards explored
MaxRecords == 2
\* add_* / increment_* calls explored
MaxCount == 1
\* the threads that record durations
RecThreads == {1, 2}
EmaUnit == Pow2(MaxRecords + 1)

\* PerformanceMonitor::new(frame_size, sample_rate, ema_alpha)
NewPerformanceMonitor(alpha_inv) ==
    [frames_processed |-> 0, callback_count |-> 0,
     underrun_count |-> 0, overrun_count |-> 0,
     min_callback_nanos |-> U64_MAX, max_callback_nanos |-> 0,
     ema |-> 0, alpha_inv |-> alpha_inv]

\* compare_exchange_weak(expected, new): whether the value found is the
\* expected one (the exchange may also fail when it is)
\* (variant: the store is made whatever value is found)
CompareExchangeBlind(found, expected) == TRUE
CompareExchange(found, expected) == found = expected

\* EMA_new = alpha * x + (1 - alpha) * EMA_old
EmaStep(old, nanos, alpha_inv) ==
    (nanos * EmaUnit + (alpha_inv - 1) * old) \div alpha_inv

\* the stores of snapshot(true)
\* (variant: the cumulative counters are cleared as well)
ResetPeaksAndCounters(m) ==
    [m EXCEPT !.min_callback_nanos = U64_MAX, !.max_callback_nanos = 0,
              !.ema = 0, !.frames_processed = 0, !.callback_count = 0]
ResetPeaks(m) ==
    [m EXCEPT !.min_callback_nanos = U64_MAX, !.max_callback_nanos = 0,
              !.ema = 0]

\* reset_all
ResetAll(m) ==
    [m EXCEPT !.frames_processed = 0, !.callback_count = 0,
              !.underrun_count = 0, !.overrun_count = 0,
              !.min_callback_nanos = U64_MAX, !.max_callback_nanos = 0,
              !.ema = 0]

\* the PerformanceSnapshot read by snapshot(); an Option is the set of its
\* values: {} for None (an unset peak), {v} for Some(v)
SnapshotOf(m) ==
    [frames_processed |-> m.frames_processed,
     callback_count |-> m.callback_count,
     underrun_count |-> m.underrun_count,
     overrun_count |-> m.overrun_count,
     min_callback_nanos |-> IF m.min_callback_nanos = U64_MAX THEN {}
                            ELSE {m.min_callback_nanos},
     max_callback_nanos |-> IF m.max_callback_nanos = 0 THEN {}
                            ELSE {m.max_callback_nanos},
     ema_callback_nanos |-> m.ema]

(***************************************************************************)
(* Router                                                                  *)
(***************************************************************************)
\* most sources held at once
MaxSources == 2
\* largest frame count of one Router::process call
MaxFrames == 2

\* what Router::new and add_source are called with
RouterChannels == {1, 2}
BusCounts == {0, 2}
BusIndices == {0, 1, 2}
\* gain and pan of a routed source
MixSet == {[gain |-> 1, pan |-> [value |-> -1, law |-> "Linear"]],
           [gain |-> 2, pan |-> [value |-> 1, law |-> "EqualPower"]]}
SourceSet == {NewOscillator("Sawtooth", 1, TRUE),
              NewOscillator("Square", 1, FALSE),
              StereoSource}
\* the monitor a caller hands to process: one that has seen a callback
UsedMonitor == [frames_processed |-> 3, callback_count |-> 1, recorded |-> 1,
                underrun_count |-> 1, overrun_count |-> 2]

ZeroBuffers(channels, frames) ==
    [ch \in 1..channels |-> [i \in 1..frames |-> 0]]

\* Router::new(channels, sample_rate, num_buses, max_frames)
BusCount(num_buses) == IF num_buses > 1 THEN num_buses ELSE 1

NewRouter(channels, num_buses, max_frames) ==
    [channels |-> channels,
     num_buses |-> BusCount(num_buses),
     scratch |-> ZeroBuffers(channels, max_frames),
     sources |-> <<>>,
     num_buses_arg |-> num_buses]

NoOp == [op |-> "new", status |-> "returned", frames |-> 0, len |-> 0,
         rendered |-> <<>>, bus_buffers |-> <<>>, monitored |-> FALSE,
         trace |-> <<>>, bus |-> 0]

\* routed.bus.min(self.num_buses - 1)
\* (variant: wraps around instead of clamping)
ClampBusWraps(bus, num_buses) == bus % num_buses
ClampBus(bus, num_buses) == IF bus < num_buses - 1 THEN bus ELSE num_buses - 1

\* self.scratch[ch][..frames].fill(0.0)
\* (variant: the scratch keeps the previous call's mix)
ZeroScratchNothing(scratch, frames) == scratch
ZeroScratch(scratch, frames) ==
    [ch \in DOMAIN scratch |->
        [i \in DOMAIN scratch[ch] |-> IF i <= frames THEN 0 ELSE scratch[ch][i]]]

\* the stereo and the generic accumulation of one rendered source into its bus
\* (variant: the pan gains are not applied)
MixMonoDropsPan(buf, views, routed, frames) ==
    [ch \in 1..2 |-> [i \in 1..frames |->
        buf[ch][i] + views[1][i] * routed.gain * 1000]]
MixMono(buf, views, routed, frames) ==
    LET g == PanGains(routed.pan)
    IN  [ch \in 1..2 |-> [i \in 1..frames |->
            buf[ch][i] + (views[1][i] * routed.gain) * g[ch]]]

MixGeneric(buf, views, routed, frames) ==
    [ch \in DOMAIN buf |-> [i \in 1..frames |->
        buf[ch][i] + views[ch][i] * routed.gain]]

\* the loop over the sources: renders source k.. in order into the buses
RECURSIVE MixSources(_, _, _, _, _, _)
MixSources(sources, k, channels, frames, num_buses, acc) ==
    IF k > Len(sources) THEN acc
    ELSE LET routed == sources[k]
             r == Render(routed.source, channels, frames)
             bus == ClampBus(routed.bus, num_buses)
         IN  IF bus + 1 \notin DOMAIN acc.bus_buffers
             THEN [acc EXCEPT !.status = "panicked"]
             ELSE MixSources(sources, k + 1, channels, frames, num_buses,
                    [acc EXCEPT
                       !.sources[k].source = r.source,
                       !.rendered = Append(@, r.views),
                       !.bus_buffers[bus + 1] =
                           IF channels = 2
                           THEN MixMono(@, r.views, routed, frames)
                           ELSE MixGeneric(@, r.views, routed, frames)])

\* scratch[ch][i] += bus_buffers[bus][ch][i], bus by bus
\* (variant: only bus 0 reaches the master)
SumBusesMasterOnly(scratch, bus_buffers, b, frames) ==
    [ch \in DOMAIN scratch |-> [i \in DOMAIN scratch[ch] |->
        IF i <= frames THEN scratch[ch][i] + bus_buffers[1][ch][i]
        ELSE scratch[ch][i]]]
RECURSIVE SumBuses(_, _, _, _)
SumBuses(scratch, bus_buffers, b, frames) ==
    IF b > Len(bus_buffers) THEN scratch
    ELSE SumBuses([ch \in DOMAIN scratch |-> [i \in DOMAIN scratch[ch] |->
                      IF i <= frames THEN scratch[ch][i] + bus_buffers[b][ch][i]
                      ELSE scratch[ch][i]]],
                  bus_buffers, b + 1, frames)

\* output[i * channels + ch] = scratch[ch][i]
WriteInterleaved(out, scratch, channels, frames) ==
    [j \in DOMAIN out |->
        IF j <= frames * channels
        THEN scratch[((j - 1) % channels) + 1][((j - 1) \div channels) + 1]
        ELSE out[j]]

\* Router::process(output, perf_monitor): everything the call computes
ProcessResult(r, out, monitor, monitored) ==
    LET frames == Len(out) \div r.channels
        start == [NoOp EXCEPT !.op = "process", !.frames = frames,
                              !.len = Len(out), !.monitored = monitored]
    IN  IF frames > Len(r.scratch[1])
        THEN \* scratch[ch][..frames]: slice end out of range
             [router |-> r, output |-> out, perf |-> monitor,
              last |-> [start EXCEPT !.status = "panicked"]]
        ELSE
        LET zeroed == ZeroScratch(r.scratch, frames)
            mixed == MixSources(r.sources, 1, r.channels, frames, r.num_buses,
                        [status |-> "returned", sources |-> r.sources,
                         rendered |-> <<>>,
                         bus_buffers |-> [b \in 1..r.num_buses |->
                                            ZeroBuffers(r.channels, frames)]])
            master == SumBuses(zeroed, mixed.bus_buffers, 1, frames)
        IN  IF mixed.status = "panicked"
            THEN [router |-> [r EXCEPT !.scratch = zeroed,
                                       !.sources = mixed.sources],
                  output |-> out, perf |-> monitor,
                  last |-> [start EXCEPT !.status = "panicked",
                                         !.rendered = mixed.rendered]]
            ELSE [router |-> [r EXCEPT !.scratch = master,
                                       !.sources = mixed.sources],
                  output |-> WriteInterleaved(out, master, r.channels, frames),
                  perf |-> IF monitored
                           THEN GuardDrop(AddFramesProcessed(
                                    ScopedCallback(monitor), frames))
                           ELSE monitor,
                  last |-> [start EXCEPT
                       !.rendered = mixed.rendered,
                       !.bus_buffers = mixed.bus_buffers,
                       !.trace = <<"zero_scratch", "render_and_mix",
                                   "sum_buses", "write_interleaved">>
                                 \o (IF monitored
                                     THEN <<"guard_start", "add_frames",
                                            "guard_drop">>
                                     ELSE <<>>)]]

\* add_source(source, gain, pan, bus)
AddSourceFrom(sources, mixes, buses) ==
    /\ Len(router.sources) < MaxSources
    /\ \E source \in sources, mix \in mixes, bus \in buses :
         /\ router' = [router EXCEPT !.sources = Append(@,
                          [source |-> source, gain |-> mix.gain,
                           pan |-> mix.pan, bus |-> bus])]
         /\ r_last' = [NoOp EXCEPT !.op = "add_source", !.bus = bus]
    /\ UNCHANGED <<r_output, perf>>

AddSource == AddSourceFrom(SourceSet, MixSet, BusIndices)

\* add_source with a Pan whose value is 1.5: Pan is a plain struct with
\* public fields, and add_source stores the Pan it is given
WidePanMix == [gain |-> 1, pan |-> [value |-> 3, law |-> "Linear"]]
AddSourceWidePan == AddSourceFrom({StereoSource}, {WidePanMix}, {0})

\* Vec::clear
\* (variant: the first source stays registered)
ClearKeepsFirst(sources) == SubSeq(sources, 1, 1)
Clear(sources) == <<>>

\* clear_sources()
ClearSources ==
    /\ router.sources # <<>>
    /\ router' = [router EXCEPT !.sources = Clear(@)]
    /\ r_last' = [NoOp EXCEPT !.op = "clear_sources"]
    /\ UNCHANGED <<r_output, perf>>

\* process(output, perf_monitor) on a buffer of stale samples; `perf` is the
\* monitor of the last call that was given one
Process ==
    \E len \in 0..(MaxFrames * router.channels), monitored \in BOOLEAN :
        \E res \in {ProcessResult(router, [j \in 1..len |-> Stale],
                                   UsedMonitor, monitored)} :
            /\ router' = res.router
            /\ r_output' = res.output
            /\ perf' = (IF monitored THEN res.perf ELSE perf)
            /\ r_last' = res.last

\* the parts of the program a specification leaves alone
EnvUnused ==
    /\ env = NewEnvelope(0, 0, Zero, 0, 1)
    /\ env_obs = <<>>

MonUnused ==
    /\ mon = NewPerformanceMonitor(1)
    /\ mon_thr = <<>>
    /\ mon_obs = <<>>

OscUnused ==
    /\ oscillator = NewOscillator("Sawtooth", 1, TRUE)
    /\ osc_obs = <<>>

NoiseUnused ==
    /\ noise = <<>>
    /\ noise_obs = <<>>

PanUnused ==
    /\ panning = [value |-> 0, law |-> "Linear"]
    /\ pan_obs = <<>>

RouterUnused ==
    /\ router = NewRouter(2, 1, 1)
    /\ r_output = <<>>
    /\ perf = NewMonitor
    /\ r_last = NoOp

SlotUnused ==
    /\ lock = FALSE
    /\ processor = Box("silent", 0)
    /\ sample_clock = 0
    /\ slot_channels = 2
    /\ rt = RtIdle
    /\ ctl = [t \in CtlThreads |-> CtlIdle]
    /\ next_id = 0
    /\ retired = {}
    /\ calls = 0
    /\ frames_total = 0

\* one process call on any source list built by add_source / clear_sources
InitRouter ==
    /\ SlotUnused
    /\ EnvUnused
    /\ MonUnused
    /\ OscUnused
    /\ NoiseUnused
    /\ PanUnused
    /\ \E channels \in RouterChannels, num_buses \in BusCounts,
          max_frames \in {MaxFrames - 1, MaxFrames} :
            router = NewRouter(channels, num_buses, max_frames)
    /\ r_output = <<>>
    /\ perf = NewMonitor
    /\ r_last = NoOp

NextRouter ==
    /\ r_last.op # "process"
    /\ \/ AddSource
       \/ AddSourceWidePan
       \/ ClearSources
       \/ Process
    /\ UNCHANGED <<slotVars, envVars, monVars, oscVars,
                 noiseVars, panVars>>

SpecRouter == InitRouter /\ [][NextRouter]_vars

\* any sequence of calls on a stereo two-bus router, sources on one mix
SeqSources == {NewOscillator("Square", 1, FALSE), StereoSource}
SeqMixes == {[gain |-> 2, pan |-> [value |-> -1, law |-> "Linear"]]}
SeqBuses == {1}

AddSourceSeq == AddSourceFrom(SeqSources, SeqMixes, SeqBuses)

InitRouterSeq ==
    /\ SlotUnused
    /\ EnvUnused
    /\ MonUnused
    /\ OscUnused
    /\ NoiseUnused
    /\ PanUnused
    /\ \E channels \in RouterChannels :
            router = NewRouter(channels, 2, MaxFrames)
    /\ r_output = <<>>
    /\ perf = NewMonitor
    /\ r_last = NoOp

NextRouterSeq ==
    /\ \/ AddSourceSeq
       \/ ClearSources
       \/ Process
    /\ UNCHANGED <<slotVars, envVars, monVars, oscVars,
                 noiseVars, panVars>>

SpecRouterSeq == InitRouterSeq /\ [][NextRouterSeq]_vars

\* CallbackSlot::new / CallbackSlot::silent
InitSlot ==
    /\ lock = FALSE
    /\ processor \in {Box("silent", 0), Box("tone", 0)}
    /\ sample_clock = 0
    /\ slot_channels \in 1..MaxChannels
    /\ rt = RtIdle
    /\ ctl = [t \in CtlThreads |-> CtlIdle]
    /\ next_id = 0
    /\ retired = {}
    /\ calls = 0
    /\ frames_total = 0
    /\ RouterUnused
    /\ EnvUnused
    /\ MonUnused
    /\ OscUnused
    /\ NoiseUnused
    /\ PanUnused

NextSlot ==
    /\ \/ RTEnter
       \/ RTTryLock
       \/ RTProcessStep
       \/ RTReturn
       \/ SetRuntimeConfig
       \/ \E t \in CtlThreads : CtlStep(t)
    /\ UNCHANGED <<routerVars, envVars, monVars, oscVars,
                 noiseVars, panVars>>

SpecSlot == InitSlot /\ [][NextSlot]_vars

(***************************************************************************)
(* CallbackSlot with the real-time thread calling every period             *)
(*                                                                         *)
(* The real-time thread calls process_realtime again and again, and a      *)
(* control thread's swap_processor / with_processor_mut is in two parts:   *)
(* the call is made, then processor.lock() spins until its compare-and-    *)
(* swap finds the flag clear.  The sample clock wraps (it is an AtomicU64; *)
(* the modulus is scaled down) and the call counters of the bounded        *)
(* specification are left alone.                                           *)
(***************************************************************************)
\* sample_clock.fetch_add(frames): wrapping addition
ClockWrap == 4
FetchAddWrapping(clock, frames) == (clock + frames) % ClockWrap

Spinning(t) == ctl[t].pc \in {"swap_spin", "swap_wait", "mut_spin", "mut_wait"}

\* process_realtime(output): entry, frame count, early return, fetch_add
PeriodEnter ==
    /\ rt.pc = "idle"
    /\ \E len \in 0..MaxLen :
         LET out == [i \in 1..len |-> Stale]
             frames == FrameCount(len, slot_channels)
             call == [RtIdle EXCEPT !.output = out, !.frames = frames,
                                    !.steps = 1, !.channels = slot_channels]
         IN  IF NoFrames(frames)
             THEN /\ rt' = [call EXCEPT !.ret = "false"]
                  /\ UNCHANGED sample_clock
             ELSE /\ rt' = [call EXCEPT !.pc = "clocked"]
                  /\ sample_clock' = FetchAddWrapping(sample_clock, frames)
    /\ UNCHANGED <<lock, processor, slot_channels, ctl, next_id, retired,
                   calls, frames_total>>

\* if let Some(guard) = self.processor.try_lock() { .. } else { fill; false }
PeriodTryLock ==
    /\ rt.pc = "clocked"
    /\ IF TryLockSucceeds(lock)
       THEN /\ lock' = TRUE
            /\ rt' = [rt EXCEPT !.pc = "process", !.proc = processor,
                                !.steps = @ + 1, !.attempts = @ + 1,
                                !.contended = lock, !.invoked = @ + 1]
       ELSE /\ lock' = lock
            /\ rt' = [rt EXCEPT !.pc = "idle", !.ret = "false",
                                !.output = SilenceFill(@),
                                !.steps = @ + 1, !.attempts = @ + 1,
                                !.contended = lock]
    /\ UNCHANGED <<processor, sample_clock, slot_channels, ctl, next_id,
                   retired, calls, frames_total>>

\* process() returned: the guard is dropped, the call returns true
PeriodReturn ==
    /\ rt.pc = "process"
    /\ rt.idx >= ProcessLen(processor, Len(rt.output), slot_channels, rt.frames)
    /\ lock' = FALSE
    /\ rt' = [rt EXCEPT !.pc = "idle", !.ret = "true", !.steps = @ + 1]
    /\ UNCHANGED <<processor, sample_clock, slot_channels, ctl, next_id,
                   retired, calls, frames_total>>

PeriodStep == PeriodEnter \/ PeriodTryLock \/ RTProcessStep \/ PeriodReturn

\* a control thread calls swap_processor(new_processor)
SwapCall(t) ==
    /\ ctl[t].pc = "idle"
    /\ \E id \in 1..MaxProcs :
         ctl' = [ctl EXCEPT ![t] = [pc |-> "swap_spin",
                                    new |-> Box("tone", id), old |-> 0]]
    /\ UNCHANGED <<lock, processor, sample_clock, slot_channels, rt, next_id,
                   retired, calls, frames_total>>

\* a control thread calls with_processor_mut(f)
MutCall(t) ==
    /\ ctl[t].pc = "idle"
    /\ ctl' = [ctl EXCEPT ![t].pc = "mut_spin"]
    /\ UNCHANGED <<lock, processor, sample_clock, slot_channels, rt, next_id,
                   retired, calls, frames_total>>

\* self.processor.lock() is spin::Mutex::lock:
\*     while compare_exchange_weak(false, true).is_err() {
\*         while is_locked() { spin_loop() }
\*     }
\* the compare-and-swap: it takes the lock, or fails and enters the inner loop
SpinLock(t) ==
    /\ ctl[t].pc \in {"swap_spin", "mut_spin"}
    /\ IF SpinLockAcquires(lock)
       THEN /\ lock' = TRUE
            /\ ctl' = [ctl EXCEPT ![t].pc = IF ctl[t].pc = "swap_spin"
                                            THEN "swap_locked"
                                            ELSE "mut_locked"]
       ELSE /\ lock' = lock
            /\ ctl' = [ctl EXCEPT ![t].pc = IF ctl[t].pc = "swap_spin"
                                            THEN "swap_wait"
                                            ELSE "mut_wait"]
    /\ UNCHANGED <<processor, sample_clock, slot_channels, rt, next_id,
                   retired, calls, frames_total>>

\* the inner loop: it reads the flag until it is clear, then tries again
SpinRelax(t) ==
    /\ ctl[t].pc \in {"swap_wait", "mut_wait"}
    /\ lock = FALSE
    /\ ctl' = [ctl EXCEPT ![t].pc = IF ctl[t].pc = "swap_wait"
                                    THEN "swap_spin"
                                    ELSE "mut_spin"]
    /\ UNCHANGED <<lock, processor, sample_clock, slot_channels, rt, next_id,
                   retired, calls, frames_total>>

\* what a control thread does once its call is made: it runs to the return
InCall(t) ==
    \/ SpinLock(t) \/ SpinRelax(t)
    \/ SwapStore(t) \/ SwapUnlock(t)
    \/ MutBegin(t) \/ MutEnd(t) \/ MutUnlock(t)

InitPeriodic == InitSlot

NextPeriodic ==
    /\ \/ PeriodEnter
       \/ PeriodTryLock
       \/ RTProcessStep
       \/ PeriodReturn
       \/ \E t \in CtlThreads : SwapCall(t)
       \/ \E t \in CtlThreads : MutCall(t)
       \/ \E t \in CtlThreads : InCall(t)
    /\ UNCHANGED <<routerVars, envVars, monVars, oscVars,
                 noiseVars, panVars>>

\* every thread that can take a step is scheduled: the real-time thread
\* keeps calling and finishes each call, and a control thread inside a call
\* keeps running (process() and the closures terminate)
FairPeriodic ==
    /\ WF_slotVars(PeriodStep)
    /\ \A t \in CtlThreads : WF_slotVars(InCall(t))

SpecPeriodic == InitPeriodic /\ [][NextPeriodic]_vars /\ FairPeriodic

\* the same with the lock itself treated fairly: a spinning thread that
\* could see the flag clear again and again does see it, and one whose
\* compare-and-swap could succeed again and again succeeds at some point
FairSpin ==
    \A t \in CtlThreads :
        /\ SF_slotVars(SpinRelax(t))
        /\ SF_slotVars(SpinLock(t) /\ SpinLockAcquires(lock))

SpecPeriodicFairSpin == SpecPeriodic /\ FairSpin

(***************************************************************************)
(* ADSREnvelope driven by a control thread and by EnvelopedSource           *)
(***************************************************************************)
\* most frames of one EnvelopedSource::fill_buffer call
MaxEnvFrames == 2
\* envelope operations explored
MaxEnvOps == 7

\* times in half seconds (a negative time gives a count of 0)
EnvTimes == {-1, 2, 4}
EnvRates == {1, 2}
\* sustain levels handed to new and set_sustain_level, clamped by both
SustainLevels == {Rat(-1, 2), Rat(1, 2), Rat(3, 2)}

NoRun == [since |-> "none", k |-> 0, v0 |-> Zero]

EnvObserved(op, ret, fired, run) ==
    [op |-> op, ret |-> ret, fired |-> fired, run |-> run,
     ops |-> env_obs.ops + 1]

InitEnvelope ==
    /\ \E a \in EnvTimes, d \in EnvTimes, s \in SustainLevels,
          r \in EnvTimes, rate \in EnvRates :
            env = NewEnvelope(a, d, s, r, rate)
    /\ env_obs = [op |-> "new", ret |-> <<>>, fired |-> FALSE, run |-> NoRun,
                  ops |-> 0]
    /\ SlotUnused
    /\ RouterUnused
    /\ MonUnused
    /\ OscUnused
    /\ NoiseUnused
    /\ PanUnused

EnvNoteOn ==
    /\ env' = NoteOn(env)
    /\ env_obs' = EnvObserved("note_on", <<>>, FALSE,
                      [since |-> "note_on", k |-> 0, v0 |-> Zero])

\* a note_off that takes effect starts a run of release calls
EnvNoteOff ==
    /\ env' = NoteOff(env)
    /\ env_obs' = EnvObserved("note_off", <<>>, FALSE,
                      IF env.note_on /\ ~env.note_off_triggered
                      THEN [since |-> "note_off", k |-> 0,
                            v0 |-> env.current_value]
                      ELSE env_obs.run)

\* get_value at the rate the envelope already has continues the run
EnvGetValue ==
    \E sample_rate \in EnvRates :
        /\ env' = GetValue(env, sample_rate)
        /\ env_obs' = EnvObserved("get_value", <<env'.current_value>>, FALSE,
                          IF sample_rate = env.sample_rate
                             /\ env_obs.run.since # "none"
                          THEN [env_obs.run EXCEPT !.k = @ + 1]
                          ELSE NoRun)

EnvResetCall ==
    /\ env' = EnvReset(env)
    /\ env_obs' = EnvObserved("reset", <<>>, FALSE, NoRun)

EnvSetAttackTime ==
    \E t \in EnvTimes :
        /\ env' = set_attack_time(env, t)
        /\ env_obs' = EnvObserved("set_attack_time", <<>>, FALSE, NoRun)

EnvSetDecayTime ==
    \E t \in EnvTimes :
        /\ env' = set_decay_time(env, t)
        /\ env_obs' = EnvObserved("set_decay_time", <<>>, FALSE, NoRun)

EnvSetSustainLevel ==
    \E s \in SustainLevels :
        /\ env' = set_sustain_level(env, s)
        /\ env_obs' = EnvObserved("set_sustain_level", <<>>, FALSE, NoRun)

EnvSetReleaseTime ==
    \E t \in EnvTimes :
        /\ env' = set_release_time(env, t)
        /\ env_obs' = EnvObserved("set_release_time", <<>>, FALSE, NoRun)

\* EnvelopedSource::fill_buffer around this envelope
EnvFill ==
    \E auto_retrigger \in BOOLEAN, source_active \in BOOLEAN,
       sample_rate \in EnvRates, frames \in 1..MaxEnvFrames :
        \E res \in {EnvFillBuffer(env, auto_retrigger, source_active,
                                  sample_rate, frames)} :
            /\ env' = res.env
            /\ env_obs' = EnvObserved("fill_buffer", res.values, res.fired,
                                      NoRun)

NextEnvelope ==
    /\ env_obs.ops < MaxEnvOps
    /\ \/ EnvNoteOn
       \/ EnvNoteOff
       \/ EnvGetValue
       \/ EnvResetCall
       \/ EnvSetAttackTime
       \/ EnvSetDecayTime
       \/ EnvSetSustainLevel
       \/ EnvSetReleaseTime
       \/ EnvFill
    /\ UNCHANGED <<slotVars, routerVars, monVars, oscVars,
                 noiseVars, panVars>>

SpecEnvelope == InitEnvelope /\ [][NextEnvelope]_vars

\* EnvelopedSource: fill_buffer with the retrigger flag and the activity of
\* the wrapped source on record, between note_on / note_off / get_value /
\* reset calls on its envelope
MaxFillOps == 4

EnvelopedFill ==
    \E auto_retrigger \in BOOLEAN, source_active \in BOOLEAN,
       sample_rate \in EnvRates, frames \in 1..MaxEnvFrames :
        \E res \in {EnvFillBuffer(env, auto_retrigger, source_active,
                                  sample_rate, frames)} :
            /\ env' = res.env
            /\ env_obs' = [op |-> "fill_buffer", ret |-> res.values,
                           fired |-> res.fired, run |-> NoRun,
                           ops |-> env_obs.ops + 1,
                           auto_retrigger |-> auto_retrigger,
                           source_active |-> source_active]

NextEnveloped ==
    /\ env_obs.ops < MaxFillOps
    /\ \/ EnvNoteOn
       \/ EnvNoteOff
       \/ EnvGetValue
       \/ EnvResetCall
       \/ EnvelopedFill
    /\ UNCHANGED <<slotVars, routerVars, monVars, oscVars,
                 noiseVars, panVars>>

SpecEnveloped == InitEnvelope /\ [][NextEnveloped]_vars

(***************************************************************************)
(* PerformanceMonitor shared by recording threads; snapshot and reset_all   *)
(* take &mut self, so they run only while no recorder or guard borrows the  *)
(* monitor.                                                                 *)
(***************************************************************************)
MonDurations == 0..U64_MAX
AlphaInverses == {1, 2}

RecIdle == [pc |-> "idle", nanos |-> 0, prev |-> 0, guard |-> FALSE]

AllRecIdle == \A t \in RecThreads : mon_thr[t].pc = "idle"

MonObserved(op) == [mon_obs EXCEPT !.op = op, !.snapshot = <<>>]

\* how many calls have entered with each duration, and how many have
\* applied their EMA step
NoCalls == [d \in MonDurations |-> 0]
\* what the history holds of the EMA after a reset: the steps applied so
\* far, replayed one after another
MonEmaCleared(obs) ==
    [obs EXCEPT !.entered = NoCalls, !.applied = NoCalls, !.ema_seq = 0,
                !.last_applied = {}, !.ema_retried = FALSE]

\* what a direct add_* / increment_* call leaves in the history
MonCounted(op) == [MonObserved(op) EXCEPT !.counted = @ + 1]

InitMonitor ==
    /\ \E alpha_inv \in AlphaInverses : mon = NewPerformanceMonitor(alpha_inv)
    /\ mon_thr = [t \in RecThreads |-> RecIdle]
    /\ mon_obs = [op |-> "new", snapshot |-> <<>>, durations |-> {},
                  started |-> 0, guards_created |-> 0,
                  guards_recorded |-> 0, direct |-> 0, counted |-> 0,
                  retried |-> FALSE, entered |-> NoCalls,
                  applied |-> NoCalls, ema_seq |-> 0, last_applied |-> {},
                  ema_retried |-> FALSE]
    /\ SlotUnused
    /\ RouterUnused
    /\ EnvUnused
    /\ OscUnused
    /\ NoiseUnused
    /\ PanUnused

\* after a load or a failed exchange of the minimum: loop again or go on
AfterMinLoad(thr, found) ==
    IF thr.nanos < found THEN [thr EXCEPT !.pc = "min_cas", !.prev = found]
    ELSE [thr EXCEPT !.pc = "max_load"]

AfterMaxLoad(thr, found) ==
    IF thr.nanos > found THEN [thr EXCEPT !.pc = "max_cas", !.prev = found]
    ELSE [thr EXCEPT !.pc = "ema_load"]

\* record_callback_duration_nanos(nanos), called directly: entry and the
\* load of the minimum
RecordEnter(t) ==
    /\ mon_thr[t].pc = "idle"
    /\ mon_obs.started < MaxRecords
    /\ \E nanos \in MonDurations :
         mon_thr' = [mon_thr EXCEPT ![t] =
                        AfterMinLoad([RecIdle EXCEPT !.nanos = nanos],
                                     mon.min_callback_nanos)]
    /\ mon_obs' = [MonObserved("record") EXCEPT
                      !.started = @ + 1,
                      !.entered[mon_thr'[t].nanos] = @ + 1]
    /\ UNCHANGED mon

\* scoped_callback(): the count goes up, the guard is alive
ScopedCallbackCall(t) ==
    /\ mon_thr[t].pc = "idle"
    /\ mon_obs.started < MaxRecords
    /\ mon' = ScopedCallback(mon)
    /\ mon_thr' = [mon_thr EXCEPT ![t] = [RecIdle EXCEPT !.pc = "guard",
                                                         !.guard = TRUE]]
    /\ mon_obs' = [MonObserved("scoped_callback") EXCEPT
                      !.started = @ + 1, !.guards_created = @ + 1]

\* RealtimeGuard::drop: elapsed is whatever the clock says, clamped to u64
RealtimeGuardDrop(t) ==
    /\ mon_thr[t].pc = "guard"
    /\ \E elapsed \in MonDurations :
         mon_thr' = [mon_thr EXCEPT ![t] =
                        AfterMinLoad([@ EXCEPT !.nanos = elapsed],
                                     mon.min_callback_nanos)]
    /\ mon_obs' = [MonObserved("drop") EXCEPT
                      !.entered[mon_thr'[t].nanos] = @ + 1]
    /\ UNCHANGED mon

\* compare_exchange_weak on the minimum
MinExchange(t) ==
    /\ mon_thr[t].pc = "min_cas"
    /\ \/ /\ CompareExchange(mon.min_callback_nanos, mon_thr[t].prev)
          /\ mon' = [mon EXCEPT !.min_callback_nanos = mon_thr[t].nanos]
          /\ mon_thr' = [mon_thr EXCEPT ![t].pc = "max_load"]
       \/ /\ mon_thr' = [mon_thr EXCEPT ![t] =
                            AfterMinLoad(@, mon.min_callback_nanos)]
          /\ UNCHANGED mon
    /\ mon_obs' = [MonObserved("record") EXCEPT !.retried =
                      @ \/ mon.min_callback_nanos # mon_thr[t].prev]

MaxLoad(t) ==
    /\ mon_thr[t].pc = "max_load"
    /\ mon_thr' = [mon_thr EXCEPT ![t] = AfterMaxLoad(@, mon.max_callback_nanos)]
    /\ mon_obs' = MonObserved("record")
    /\ UNCHANGED mon

MaxExchange(t) ==
    /\ mon_thr[t].pc = "max_cas"
    /\ \/ /\ CompareExchange(mon.max_callback_nanos, mon_thr[t].prev)
          /\ mon' = [mon EXCEPT !.max_callback_nanos = mon_thr[t].nanos]
          /\ mon_thr' = [mon_thr EXCEPT ![t].pc = "ema_load"]
       \/ /\ mon_thr' = [mon_thr EXCEPT ![t] =
                            AfterMaxLoad(@, mon.max_callback_nanos)]
          /\ UNCHANGED mon
    /\ mon_obs' = [MonObserved("record") EXCEPT !.retried =
                      @ \/ mon.max_callback_nanos # mon_thr[t].prev]

EmaLoad(t) ==
    /\ mon_thr[t].pc = "ema_load"
    /\ mon_thr' = [mon_thr EXCEPT ![t].pc = "ema_cas", ![t].prev = mon.ema]
    /\ mon_obs' = MonObserved("record")
    /\ UNCHANGED mon

\* what a successful exchange of the EMA leaves in the history
EmaApplied(t) ==
    [MonObserved("recorded") EXCEPT
        !.durations = @ \cup {mon_thr[t].nanos},
        !.guards_recorded = IF mon_thr[t].guard THEN @ + 1 ELSE @,
        !.applied[mon_thr[t].nanos] = @ + 1,
        !.ema_seq = EmaStep(@, mon_thr[t].nanos, mon.alpha_inv),
        !.last_applied = {mon_thr[t].nanos}]

\* the exchange of the EMA; its success ends the call
\* (variant: the new EMA is stored whatever value is found)
EmaExchangeBlind(t) ==
    /\ mon_thr[t].pc = "ema_cas"
    /\ mon' = [mon EXCEPT !.ema = EmaStep(mon_thr[t].prev, mon_thr[t].nanos,
                                          mon.alpha_inv)]
    /\ mon_thr' = [mon_thr EXCEPT ![t] = RecIdle]
    /\ mon_obs' = EmaApplied(t)
EmaExchange(t) ==
    /\ mon_thr[t].pc = "ema_cas"
    /\ \/ /\ CompareExchange(mon.ema, mon_thr[t].prev)
          /\ mon' = [mon EXCEPT !.ema = EmaStep(mon_thr[t].prev,
                                                mon_thr[t].nanos,
                                                mon.alpha_inv)]
          /\ mon_thr' = [mon_thr EXCEPT ![t] = RecIdle]
          /\ mon_obs' = EmaApplied(t)
       \/ /\ mon_thr' = [mon_thr EXCEPT ![t].prev = mon.ema]
          /\ mon_obs' = [MonObserved("record") EXCEPT !.ema_retried =
                            @ \/ mon.ema # mon_thr[t].prev]
          /\ UNCHANGED mon

\* add_frames_processed(n)
AddFramesCall ==
    /\ mon_obs.counted < MaxCount
    /\ \E n \in 1..MaxCount : mon' = AddFramesProcessed(mon, n)
    /\ mon_obs' = MonCounted("add_frames_processed")
    /\ UNCHANGED mon_thr

\* increment_callback_count(), called directly
IncrementCallbackCount ==
    /\ mon_obs.counted < MaxCount
    /\ mon' = [mon EXCEPT !.callback_count = @ + 1]
    /\ mon_obs' = [MonCounted("increment_callback_count") EXCEPT
                      !.direct = @ + 1]
    /\ UNCHANGED mon_thr

IncrementUnderrunCount ==
    /\ mon_obs.counted < MaxCount
    /\ mon' = [mon EXCEPT !.underrun_count = @ + 1]
    /\ mon_obs' = MonCounted("increment_underrun_count")
    /\ UNCHANGED mon_thr

IncrementOverrunCount ==
    /\ mon_obs.counted < MaxCount
    /\ mon' = [mon EXCEPT !.overrun_count = @ + 1]
    /\ mon_obs' = MonCounted("increment_overrun_count")
    /\ UNCHANGED mon_thr

\* snapshot(reset_peaks)
Snapshot ==
    /\ AllRecIdle
    /\ \E reset_peaks \in BOOLEAN :
         /\ mon' = (IF reset_peaks THEN ResetPeaks(mon) ELSE mon)
         /\ mon_obs' = [(IF reset_peaks THEN MonEmaCleared(mon_obs)
                           ELSE mon_obs) EXCEPT
                          !.op = IF reset_peaks THEN "snapshot_reset"
                                 ELSE "snapshot",
                          !.snapshot = SnapshotOf(mon),
                          !.durations = IF reset_peaks THEN {} ELSE @,
                          !.retried = IF reset_peaks THEN FALSE ELSE @]
    /\ UNCHANGED mon_thr

\* reset_all()
ResetAllCall ==
    /\ AllRecIdle
    /\ mon' = ResetAll(mon)
    /\ mon_obs' = [MonEmaCleared(MonObserved("reset_all")) EXCEPT
                      !.durations = {}, !.guards_created = 0,
                      !.guards_recorded = 0, !.direct = 0,
                      !.retried = FALSE]
    /\ UNCHANGED mon_thr

RecStep(t) ==
    \/ RecordEnter(t)
    \/ ScopedCallbackCall(t)
    \/ RealtimeGuardDrop(t)
    \/ MinExchange(t)
    \/ MaxLoad(t)
    \/ MaxExchange(t)
    \/ EmaLoad(t)
    \/ EmaExchange(t)

NextMonitor ==
    /\ \/ \E t \in RecThreads : RecStep(t)
       \/ AddFramesCall
       \/ IncrementCallbackCount
       \/ IncrementUnderrunCount
       \/ IncrementOverrunCount
       \/ Snapshot
       \/ ResetAllCall
    /\ UNCHANGED <<slotVars, routerVars, envVars, oscVars,
                 noiseVars, panVars>>

SpecMonitor == InitMonitor /\ [][NextMonitor]_vars

(***************************************************************************)
(* Oscillator (waveform/oscillators.rs 6-178)                              *)
(***************************************************************************)
\* number of fill_buffer / next_sample calls explored
MaxOscCalls == 3

\* the f32 values handed to set_phase / with_phase: every representable
\* number of the model from below -1 to above 1
OscPhases ==
    {p \in (0 - PhaseUnits - 8)..(PhaseUnits + 8) : RoundF32(p) = p}
\* frequencies in Hz: negative, small and above every sample rate
OscFrequencies == {-1, 1, 3, 40}
\* positive sample rates in Hz
OscSampleRates == {1, 8, 32}
OscWaveforms == {"Sawtooth", "Triangle"}

OscObserved(op, out) ==
    [op |-> op, out |-> out,
     calls |-> osc_obs.calls + (IF op \in {"fill_buffer", "next_sample"}
                                THEN 1 ELSE 0)]

\* Oscillator::new(waveform, frequency)
InitOsc ==
    /\ SlotUnused /\ RouterUnused /\ EnvUnused /\ MonUnused
    /\ NoiseUnused /\ PanUnused
    /\ \E w \in OscWaveforms, f \in OscFrequencies :
          oscillator = NewOscillator(w, f, TRUE)
    /\ osc_obs = [op |-> "new", out |-> <<>>, calls |-> 0]

\* .with_phase(phase), chained on the constructor
OscWithPhase ==
    /\ osc_obs.op = "new"
    /\ \E p \in OscPhases : oscillator' = set_phase(oscillator, p)
    /\ osc_obs' = OscObserved("with_phase", <<>>)

OscSetPhase ==
    /\ \E p \in OscPhases : oscillator' = set_phase(oscillator, p)
    /\ osc_obs' = OscObserved("set_phase", <<>>)

OscSetFrequency ==
    /\ \E f \in OscFrequencies :
          oscillator' = [oscillator EXCEPT !.frequency = f]
    /\ osc_obs' = OscObserved("set_frequency", <<>>)

OscStart ==
    /\ oscillator' = [oscillator EXCEPT !.active = TRUE]
    /\ osc_obs' = OscObserved("start", <<>>)

OscStop ==
    /\ oscillator' = [oscillator EXCEPT !.active = FALSE]
    /\ osc_obs' = OscObserved("stop", <<>>)

OscToggle ==
    /\ oscillator' = [oscillator EXCEPT !.active = ~@]
    /\ osc_obs' = OscObserved("toggle", <<>>)

\* AudioSource::reset
OscReset ==
    /\ oscillator' = [oscillator EXCEPT !.phase = 0, !.active = TRUE]
    /\ osc_obs' = OscObserved("reset", <<>>)

OscNextSample ==
    /\ osc_obs.calls < MaxOscCalls
    /\ \E sample_rate \in OscSampleRates :
          LET res == NextSample(oscillator, sample_rate)
          IN  /\ oscillator' = res.source
              /\ osc_obs' = OscObserved("next_sample", <<res.sample>>)

OscFill ==
    /\ osc_obs.calls < MaxOscCalls
    /\ \E sample_rate \in OscSampleRates, channels \in 1..MaxChannels,
          frame_count \in 1..MaxFrames :
          LET res == OscFillBuffer(oscillator, sample_rate, channels,
                                   frame_count)
          IN  /\ oscillator' = res.source
              /\ osc_obs' = OscObserved("fill_buffer", res.buf)

NextOsc ==
    /\ \/ OscWithPhase
       \/ OscSetPhase
       \/ OscSetFrequency
       \/ OscStart
       \/ OscStop
       \/ OscToggle
       \/ OscReset
       \/ OscNextSample
       \/ OscFill
    /\ UNCHANGED <<slotVars, routerVars, envVars, monVars,
                 noiseVars, panVars>>

SpecOsc == InitOsc /\ [][NextOsc]_vars

(***************************************************************************)
(* WhiteNoise (waveform/noise.rs 35-110): two generators, each driven by   *)
(* its own caller                                                          *)
(***************************************************************************)
\* operations explored on each generator
MaxNoiseCalls == 2

Generators == {1, 2}
\* seeds handed to with_seed: zero, a small one, u32::MAX
NoiseSeeds == {<<0, 0>>, <<0, 12345>>, <<Half - 1, Half - 1>>}
NoiseChannels == {1, 2}
NoiseFrames == {1, 2}

NoiseCall(op, channels, frame_count) ==
    [op |-> op, channels |-> channels, frame_count |-> frame_count]

\* WhiteNoise::with_seed(seed), for each generator
InitNoise ==
    /\ SlotUnused /\ RouterUnused /\ EnvUnused /\ MonUnused /\ OscUnused
    /\ PanUnused
    /\ \E seeds \in [Generators -> NoiseSeeds] :
          /\ noise = [g \in Generators |-> WhiteWithSeed(seeds[g])]
          /\ noise_obs = [g \in Generators |->
                             [seed |-> seeds[g], ops |-> <<>>, out |-> <<>>]]

NoiseFill(g) ==
    /\ Len(noise_obs[g].ops) < MaxNoiseCalls
    /\ \E channels \in NoiseChannels, frame_count \in NoiseFrames :
          LET res == WhiteFillBuffer(noise[g], channels, frame_count)
          IN  /\ noise' = [noise EXCEPT ![g] = res.source]
              /\ noise_obs' = [noise_obs EXCEPT
                    ![g].ops = Append(@, NoiseCall("fill_buffer", channels,
                                                   frame_count)),
                    ![g].out = @ \o res.buf]

NoiseStop(g) ==
    /\ Len(noise_obs[g].ops) < MaxNoiseCalls
    /\ noise' = [noise EXCEPT ![g].active = FALSE]
    /\ noise_obs' = [noise_obs EXCEPT
                        ![g].ops = Append(@, NoiseCall("stop", 0, 0))]

NoiseStart(g) ==
    /\ Len(noise_obs[g].ops) < MaxNoiseCalls
    /\ noise' = [noise EXCEPT ![g].active = TRUE]
    /\ noise_obs' = [noise_obs EXCEPT
                        ![g].ops = Append(@, NoiseCall("start", 0, 0))]

NextNoise ==
    /\ \E g \in Generators :
          \/ NoiseFill(g)
          \/ NoiseStop(g)
          \/ NoiseStart(g)
    /\ UNCHANGED <<slotVars, routerVars, envVars, monVars, oscVars, panVars>>

SpecNoise == InitNoise /\ [][NextNoise]_vars

(***************************************************************************)
(* BrownNoise: one generator filling buffer after buffer                   *)
(***************************************************************************)
\* samples generated in one run
MaxBrownSamples == 110

\* seeds handed to with_seed: zero, one whose walk reaches the clamp early,
\* and the seed of BrownNoise::new()
BrownSeeds == {<<0, 0>>, <<0, 2876>>, <<0, 9876>>}
\* amplitudes handed to with_amplitude: the default 0.05, and 1.0
BrownAmplitudes == {5, 100}

InitBrown ==
    /\ SlotUnused /\ RouterUnused /\ EnvUnused /\ MonUnused /\ OscUnused
    /\ PanUnused
    /\ \E seed \in BrownSeeds, amplitude \in BrownAmplitudes :
          /\ noise = BrownWithSeed(seed, amplitude)
          /\ noise_obs = [op |-> "with_seed", seed |-> seed, samples |-> 0,
                          buf |-> <<>>, clamped |-> FALSE]

\* whether the clamp of a frame of the call cut the integrator
RECURSIVE BrownCut(_, _)
BrownCut(g, frame_count) ==
    IF frame_count = 0 THEN FALSE
    ELSE \/ Leak(g.previous_sample + next_bipolar(next_u32(g.rng)))
              \notin (-BrownUnit)..BrownUnit
         \/ BrownCut(BrownFrames(g, 1, 1, <<>>).source, frame_count - 1)

BrownFill ==
    \E channels \in NoiseChannels, frame_count \in NoiseFrames :
        /\ noise_obs.samples + frame_count <= MaxBrownSamples
        /\ LET res == BrownFillBuffer(noise, channels, frame_count)
           IN  /\ noise' = res.source
               /\ noise_obs' = [noise_obs EXCEPT
                     !.op = "fill_buffer",
                     !.samples = @ + frame_count,
                     !.buf = res.buf,
                     !.clamped = BrownCut(noise, frame_count)]

NextBrown ==
    /\ BrownFill
    /\ UNCHANGED <<slotVars, routerVars, envVars, monVars, oscVars, panVars>>

SpecBrown == InitBrown /\ [][NextBrown]_vars

(***************************************************************************)
(* BurstNoise: one generator filling buffer after buffer; the history      *)
(* follows the bursts frame by frame                                       *)
(***************************************************************************)
\* samples generated in one run
MaxBurstSamples == 345

\* probabilities handed to with_burst_probability: 0, 0.1 and 1
BurstProbabilities == {0, Half \div 10, Half}

InitBurst ==
    /\ SlotUnused /\ RouterUnused /\ EnvUnused /\ MonUnused /\ OscUnused
    /\ PanUnused
    /\ \E probability \in BurstProbabilities :
          noise = BurstNew(probability)
    /\ noise_obs = [op |-> "new", samples |-> 0, buf |-> <<>>, run |-> 0,
                    gated |-> 0, finished |-> {}]

\* the history after frame_count more frames: `run` counts the frames of
\* the burst under way, the one that started it included; `finished` holds
\* the length and the chosen duration of the last burst that is over
RECURSIVE BurstObserved(_, _, _)
BurstObserved(g, frame_count, obs) ==
    IF frame_count = 0 THEN obs
    ELSE LET f == BurstFrame(g)
             over == IF obs.run > 0 /\ g.burst_counter = 0
                     THEN {[lasted |-> obs.run,
                            duration |-> g.burst_duration]}
                     ELSE obs.finished
         IN  BurstObserved(f.source, frame_count - 1,
                 [obs EXCEPT
                    !.samples = @ + 1,
                    !.finished = over,
                    !.gated = IF f.gate THEN @ + 1 ELSE @,
                    !.run = IF ~f.gate THEN 0
                            ELSE IF g.burst_counter > 0 THEN @ + 1 ELSE 1])

BurstFill ==
    \E channels \in NoiseChannels, frame_count \in NoiseFrames :
        /\ noise_obs.samples + frame_count <= MaxBurstSamples
        /\ LET res == BurstFillBuffer(noise, channels, frame_count)
           IN  /\ noise' = res.source
               /\ noise_obs' = [BurstObserved(noise, frame_count, noise_obs)
                                   EXCEPT !.op = "fill_buffer",
                                          !.buf = res.buf]

NextBurst ==
    /\ BurstFill
    /\ UNCHANGED <<slotVars, routerVars, envVars, monVars, oscVars, panVars>>

SpecBurst == InitBurst /\ [][NextBurst]_vars

(***************************************************************************)
(* A noise source of any of the four kinds behind the AudioSource trait    *)
(* (voice_renderer.rs 6-19): fill_buffer, stop, start and reset            *)
(***************************************************************************)
\* calls explored on the source
MaxGenCalls == 5

NoiseKinds == {"white", "pink", "brown", "burst"}

\* the four implementations of the trait's methods
GenFillBuffer(kind, g, channels, frame_count) ==
    CASE kind = "white" -> WhiteFillBuffer(g, channels, frame_count)
      [] kind = "pink" -> PinkFillBuffer(g, channels, frame_count)
      [] kind = "brown" -> BrownFillBuffer(g, channels, frame_count)
      [] kind = "burst" ->
            LET res == BurstFillBuffer(g, channels, frame_count)
            IN  [buf |-> res.buf, source |-> res.source]

GenStop(kind, g) ==
    IF kind = "pink" THEN PinkStop(g) ELSE [g EXCEPT !.active = FALSE]

GenStart(kind, g) ==
    IF kind = "pink" THEN PinkStart(g) ELSE [g EXCEPT !.active = TRUE]

GenReset(kind, g) ==
    CASE kind = "white" -> WhiteReset(g)
      [] kind = "pink" -> PinkReset(g)
      [] kind = "brown" -> BrownReset(g)
      [] kind = "burst" -> BurstReset(g)

\* with_seed(seed) for the kinds that have it, new() for the others
InitGen ==
    /\ SlotUnused /\ RouterUnused /\ EnvUnused /\ MonUnused /\ OscUnused
    /\ PanUnused
    /\ \E kind \in NoiseKinds :
         \E g \in CASE kind = "white" ->
                        {WhiteWithSeed(seed) : seed \in NoiseSeeds}
                    [] kind = "pink" -> {PinkNew}
                    [] kind = "brown" ->
                        {BrownWithSeed(seed, 5) : seed \in BrownSeeds}
                    [] kind = "burst" -> {BurstNew(Half)} :
            /\ noise = g
            /\ noise_obs = [kind |-> kind, op |-> "new", fresh |-> g,
                            base |-> g, drawn |-> 0, idle_frames |-> 0,
                            buf |-> <<>>, channels |-> 0, frame_count |-> 0,
                            calls |-> 0]

\* the history after a call
GenObserved(op) == [noise_obs EXCEPT !.op = op, !.calls = @ + 1,
                                     !.buf = <<>>, !.channels = 0,
                                     !.frame_count = 0]

GenFill ==
    \E channels \in NoiseChannels, frame_count \in NoiseFrames :
        LET res == GenFillBuffer(noise_obs.kind, noise, channels, frame_count)
        IN  /\ noise' = res.source
            /\ noise_obs' = [GenObserved("fill_buffer") EXCEPT
                  !.buf = res.buf,
                  !.channels = channels,
                  !.frame_count = frame_count,
                  !.drawn = IF noise.active THEN @ + frame_count ELSE @,
                  !.idle_frames = IF noise.active THEN @
                                  ELSE @ + frame_count]

GenStopCall ==
    /\ noise' = GenStop(noise_obs.kind, noise)
    /\ noise_obs' = GenObserved("stop")

GenStartCall ==
    /\ noise' = GenStart(noise_obs.kind, noise)
    /\ noise_obs' = GenObserved("start")

GenResetCall ==
    /\ noise' = GenReset(noise_obs.kind, noise)
    /\ noise_obs' = [GenObserved("reset") EXCEPT
                        !.base = noise', !.drawn = 0, !.idle_frames = 0]

NextGen ==
    /\ noise_obs.calls < MaxGenCalls
    /\ \/ GenFill
       \/ GenStopCall
       \/ GenStartCall
       \/ GenResetCall
    /\ UNCHANGED <<slotVars, routerVars, envVars, monVars, oscVars, panVars>>

SpecGen == InitGen /\ [][NextGen]_vars

(***************************************************************************)
(* Pan (routing.rs 19-41): a value whose fields are assigned and whose     *)
(* gains are asked for                                                     *)
(***************************************************************************)
\* pan values in [-1, 1], in halves
PanValues == -2..2
PanLaws == {"Linear", "EqualPower"}

\* Pan { value, law }
InitPan ==
    /\ SlotUnused /\ RouterUnused /\ EnvUnused /\ MonUnused /\ OscUnused
    /\ NoiseUnused
    /\ \E value \in PanValues, law \in PanLaws :
          panning = [value |-> value, law |-> law]
    /\ pan_obs = [op |-> "new", gains |-> <<>>]

\* pan.value = value
PanSetValue ==
    /\ \E value \in PanValues : panning' = [panning EXCEPT !.value = value]
    /\ pan_obs' = [pan_obs EXCEPT !.op = "set_value"]

\* pan.law = law
PanSetLaw ==
    /\ \E law \in PanLaws : panning' = [panning EXCEPT !.law = law]
    /\ pan_obs' = [pan_obs EXCEPT !.op = "set_law"]

\* pan.gains(); the history keeps the pair last returned
PanGainsCall ==
    /\ pan_obs' = [op |-> "gains", gains |-> PanGains(panning)]
    /\ UNCHANGED panning

NextPan ==
    /\ \/ PanSetValue
       \/ PanSetLaw
       \/ PanGainsCall
    /\ UNCHANGED <<slotVars, routerVars, envVars, monVars, oscVars,
                   noiseVars>>

SpecPan == InitPan /\ [][NextPan]_vars

(***************************************************************************)
(* Properties of the callback slot                                         *)
(***************************************************************************)
\* a process_realtime call has returned and the thread has not re-entered
RtDone == rt.pc = "idle" /\ rt.ret # "none"

AllSamples(out, v) == \A i \in 1..Len(out) : out[i] = v

\* C1: for an output length that is a multiple of the channel count, a
\* returned process_realtime call either returned true with the buffer
\* holding what the delegated processor's process() writes in every
\* element, or returned false with every element zero; never a mixture.
C1_FullyProcessedOrFullyZeroed ==
    (RtDone /\ Len(rt.output) % rt.channels = 0) =>
        \/ rt.ret = "true" /\ AllSamples(rt.output, ProcessSample(rt.proc))
        \/ rt.ret = "false" /\ AllSamples(rt.output, 0)

C1_Witness ==
    /\ RtDone /\ rt.ret = "true" /\ rt.channels = 2 /\ Len(rt.output) = 4
    /\ rt.proc.kind = "tone" /\ rt.output[4] = ProcessSample(rt.proc)

\* C2: when the call's try_lock found the lock held by another thread, the
\* call returned false, zeroed every element of the output, and process()
\* was not invoked.
C2_ContendedFallsBackToSilence ==
    (RtDone /\ rt.attempts = 1 /\ rt.contended) =>
        /\ rt.ret = "false"
        /\ AllSamples(rt.output, 0)
        /\ rt.invoked = 0

C2_Witness ==
    /\ RtDone /\ rt.contended /\ Len(rt.output) = 4 /\ rt.output[1] = 0
    /\ \E t \in CtlThreads : ctl[t].pc = "swap_stored"

\* C3: process_realtime attempts the lock at most once and is never blocked:
\* whenever a call is in flight the real-time thread has an enabled step,
\* whoever holds the lock, and a call takes at most len + 3 steps.
C3_NeverWaits ==
    /\ rt.attempts <= 1
    /\ rt.steps <= Len(rt.output) + 3
    /\ (rt.pc # "idle" => ENABLED RTStep)

C3_Witness ==
    /\ RtDone /\ rt.ret = "false" /\ rt.steps = 2
    /\ \E t \in CtlThreads : ctl[t].pc = "hnd_locked"

\* C4: the frame counter never decreases, is untouched by control-thread
\* steps, and between calls equals the sum of len / channels over the
\* completed calls, silent fallbacks included.
C4_FrameCounter ==
    /\ [](rt.pc = "idle" => sample_clock = frames_total)
    /\ [][sample_clock' >= sample_clock]_vars
    /\ [][(\E t \in CtlThreads : CtlStep(t)) => sample_clock' = sample_clock]_vars

C4_Witness ==
    /\ RtDone /\ calls = 2 /\ sample_clock = 6
    /\ rt.ret = "false" /\ rt.attempts = 1

\* C5: at most one thread is inside the processor's critical section, and
\* the real-time thread never runs process() on a half-mutated processor.
C5_ExclusiveAccess ==
    /\ Cardinality({t \in CtlThreads : InCritical(t)})
         + (IF rt.pc = "process" THEN 1 ELSE 0) <= 1
    /\ (rt.pc = "process" => ~processor.torn)

C5_Witness ==
    /\ rt.pc = "process" /\ rt.idx = 2 /\ processor.param = 1
    /\ lock = TRUE

\* C6: the held processor is never one that a returned swap_processor
\* replaced, and while process() runs the held processor is the one the
\* call delegated to (a swap cannot take effect in the middle of it).
C6_SwapReplacesWholesale ==
    /\ processor.id \notin retired
    /\ (rt.pc = "process" =>
            rt.proc.id = processor.id /\ rt.proc.id \notin retired)

C6_Witness ==
    /\ RtDone /\ rt.ret = "true" /\ retired = {0} /\ rt.proc.id = 1
    /\ Len(rt.output) = 4 /\ rt.output[4] = ProcessSample(Box("tone", 1))

\* C7: a call whose buffer holds fewer samples than the channel count
\* returned false without advancing the frame counter, attempting the lock
\* or invoking process(), and left every element of the buffer as it was.
C7_ZeroFramesIsNoOp ==
    (RtDone /\ Len(rt.output) < rt.channels) =>
        /\ rt.ret = "false"
        /\ sample_clock = rt.clock0
        /\ rt.attempts = 0
        /\ rt.invoked = 0
        /\ AllSamples(rt.output, Stale)

C7_Witness ==
    /\ RtDone /\ Len(rt.output) = 1 /\ rt.channels = 2
    /\ rt.ret = "false" /\ rt.output[1] = Stale

(***************************************************************************)
(* Properties of the Router                                                *)
(***************************************************************************)
RECURSIVE SumFn(_, _)
SumFn(f, S) ==
    IF S = {} THEN 0
    ELSE LET x == CHOOSE y \in S : TRUE IN f[x] + SumFn(f, S \ {x})

\* a Router::process call has returned
Processed == r_last.op = "process" /\ r_last.status = "returned"

\* the sources assigned to bus b (0-based): those added with index b, and on
\* the last bus also those added with an index beyond the bus count
AssignedTo(b) ==
    {k \in 1..Len(router.sources) :
        \/ router.sources[k].bus = b
        \/ b = router.num_buses - 1 /\ router.sources[k].bus >= router.num_buses}

\* sum over the buses of the sum over the bus's sources of
\* rendered(source, i, from(c)) * gain * pan_gain(c); i, c are 1-based
StereoMix(i, c, from) ==
    SumFn([b \in 0..(router.num_buses - 1) |->
             SumFn([k \in AssignedTo(b) |->
                      (r_last.rendered[k][from][i] * router.sources[k].gain)
                         * PanGains(router.sources[k].pan)[c]],
                   AssignedTo(b))],
          0..(router.num_buses - 1))

\* C8 as stated: the stereo output sample at frame i, channel c is the sum
\* over buses and their sources of what the source rendered into channel c
\* at frame i, times gain, times the pan gain of channel c.
C8_MixOfRenderedChannel ==
    (Processed /\ router.channels = 2) =>
        \A i \in 1..r_last.frames, c \in 1..2 :
            r_output[(i - 1) * 2 + c] = StereoMix(i, c, c)

\* C8 amended: the stereo output sample at frame i, channel c is the sum
\* over buses and their sources of what the source rendered into channel 0
\* at frame i, times gain, times the pan gain of channel c.
C8_MixOfMonoChannel ==
    (Processed /\ router.channels = 2) =>
        \A i \in 1..r_last.frames, c \in 1..2 :
            r_output[(i - 1) * 2 + c] = StereoMix(i, c, 1)

C8_Witness ==
    /\ Processed /\ router.channels = 2 /\ r_last.frames = 2
    /\ router.num_buses = 2 /\ Len(router.sources) = 2
    /\ router.sources[1].source.kind = "stereo" /\ router.sources[1].bus = 0
    /\ router.sources[2].source.kind = "osc" /\ router.sources[2].source.active
    /\ router.sources[2].bus = 1
    /\ router.sources[1].gain # router.sources[2].gain
    /\ r_output[4] # 0

\* what source k adds to channel c, frame i of its bus
Contribution(k, c, i) ==
    IF router.channels = 2
    THEN (r_last.rendered[k][1][i] * router.sources[k].gain)
            * PanGains(router.sources[k].pan)[c]
    ELSE r_last.rendered[k][c][i] * router.sources[k].gain

\* C9: add_source stores the bus index it is given; a process call within
\* max_frames returns whatever the bus indices are, allocates one bus for a
\* bus count of 0, and each bus buffer holds exactly the contributions of
\* the sources added with its index, the last bus also those of the sources
\* added with an index beyond the bus count.
C9_BusClampedAtRender ==
    /\ r_last.op = "add_source" =>
          router.sources[Len(router.sources)].bus = r_last.bus
    /\ (r_last.op = "process" /\ r_last.frames <= Len(router.scratch[1])) =>
          /\ r_last.status = "returned"
          /\ Len(r_last.bus_buffers) =
                (IF router.num_buses_arg = 0 THEN 1 ELSE router.num_buses_arg)
          /\ \A b \in 0..(Len(r_last.bus_buffers) - 1) :
               \A c \in 1..router.channels, i \in 1..r_last.frames :
                  r_last.bus_buffers[b + 1][c][i] =
                     SumFn([k \in AssignedTo(b) |-> Contribution(k, c, i)],
                           AssignedTo(b))

C9_Witness ==
    /\ Processed /\ router.num_buses_arg = 2 /\ r_last.frames = 2
    /\ Len(router.sources) = 2
    /\ router.sources[1].bus = 1 /\ router.sources[2].bus = 2
    /\ router.sources[1].source.kind = "stereo"
    /\ router.sources[2].source.kind = "stereo"
    /\ r_last.bus_buffers[2][1][1] =
          Contribution(1, 1, 1) + Contribution(2, 1, 1)
    /\ r_last.bus_buffers[2][1][1] # 0

\* every registered source rendered silence, or none is registered
AllSilent ==
    \A k \in 1..Len(r_last.rendered) :
        \A c \in 1..router.channels, i \in 1..r_last.frames :
            r_last.rendered[k][c][i] = 0

\* C10: when every source rendered silence (or there is none), process
\* leaves zero in each of the frames * channels output samples, whatever
\* the buffer held and whatever earlier calls mixed.
C10_SilenceInSilenceOut ==
    (Processed /\ AllSilent) =>
        \A j \in 1..(r_last.frames * router.channels) : r_output[j] = 0

C10_Witness ==
    /\ Processed /\ AllSilent /\ router.channels = 2 /\ r_last.frames = 1
    /\ Len(router.sources) = 1 /\ ~router.sources[1].source.active
    /\ router.scratch[1][2] # 0
    /\ r_output = <<0, 0>>

\* position of a step in the order in which the last process call took them
\* (0 when the call did not take it)
TraceIndex(step) ==
    IF \E j \in DOMAIN r_last.trace : r_last.trace[j] = step
    THEN CHOOSE j \in DOMAIN r_last.trace : r_last.trace[j] = step
    ELSE 0

\* C11: when a monitor is supplied to Router::process, the timing guard is
\* started before the first source is rendered and released after the
\* interleaved output has been written, so that rendering and mixing lie
\* between the guard's start and its recording.
C11_GuardCoversWholeCall ==
    (Processed /\ r_last.monitored /\ Len(r_last.rendered) > 0) =>
        /\ TraceIndex("guard_start") > 0
        /\ TraceIndex("guard_start") < TraceIndex("render_and_mix")
        /\ TraceIndex("write_interleaved") < TraceIndex("guard_drop")

\* C30: a Router::process call that is given a monitor and returns raises
\* the monitor's callback_count by exactly 1, its frames_processed by
\* exactly output.len() / channels, and records exactly one callback
\* duration; a call given no monitor changes no monitor; no call changes
\* underrun_count or overrun_count (a call that panics is over before the
\* monitor is touched).
C30_MonitorEffects ==
    [][(r_last'.op = "process") =>
         IF ~r_last'.monitored
         THEN perf' = perf
         ELSE IF r_last'.status = "returned"
              THEN /\ perf'.callback_count = UsedMonitor.callback_count + 1
                   /\ perf'.frames_processed =
                          UsedMonitor.frames_processed
                              + (r_last'.len \div router.channels)
                   /\ perf'.recorded = UsedMonitor.recorded + 1
                   /\ perf'.underrun_count = UsedMonitor.underrun_count
                   /\ perf'.overrun_count = UsedMonitor.overrun_count
              ELSE perf' = UsedMonitor]_vars

\* a monitored stereo call on a buffer of three samples: one whole frame
C30_Witness ==
    /\ Processed
    /\ r_last.monitored
    /\ router.channels = 2
    /\ r_last.len = 3
    /\ Len(r_last.rendered) > 0
    /\ perf = [UsedMonitor EXCEPT !.frames_processed = 4,
                                  !.callback_count = 2, !.recorded = 2]

(***************************************************************************)
(* Properties of the source list                                           *)
(***************************************************************************)
\* what the sources of a list add up to in channel c, frame i, given what
\* each of them rendered
MixOf(sources, rendered, channels, c, i) ==
    SumFn([k \in 1..Len(sources) |->
             IF channels = 2
             THEN (rendered[k][1][i] * sources[k].gain)
                     * PanGains(sources[k].pan)[c]
             ELSE rendered[k][c][i] * sources[k].gain],
          1..Len(sources))

\* C31: add_source appends to the source list and keeps what it held,
\* clear_sources empties it, so the list is the sources added since the
\* last clear_sources in insertion order; a process call that returns
\* renders each source of the list once, in order, for the call's frame
\* count, and its output is the mix of these renders alone: a source that
\* was cleared is not rendered and adds nothing.
C31_SourceListAndRenders ==
    [][LET op == r_last'.op
           n == Len(router.sources)
           frames == r_last'.frames
       IN  /\ op = "add_source" =>
                /\ Len(router'.sources) = n + 1
                /\ SubSeq(router'.sources, 1, n) = router.sources
           /\ op = "clear_sources" => router'.sources = <<>>
           /\ (op = "process" /\ r_last'.status = "returned") =>
                /\ Len(router'.sources) = n
                /\ Len(r_last'.rendered) = n
                /\ \A k \in 1..n :
                     LET r == Render(router.sources[k].source,
                                     router.channels, frames)
                     IN  /\ r_last'.rendered[k] = r.views
                         /\ router'.sources[k] =
                               [router.sources[k] EXCEPT !.source = r.source]
                /\ \A c \in 1..router.channels, i \in 1..frames :
                     r_output'[(i - 1) * router.channels + c] =
                        MixOf(router.sources, r_last'.rendered,
                              router.channels, c, i)]_vars

\* a call on two stopped oscillators, added after a clear_sources that
\* removed a source which an earlier, longer call had mixed (its samples are
\* still in the scratch beyond this call's frame)
C31_Witness ==
    /\ Processed /\ router.channels = 2 /\ r_last.frames = 1
    /\ Len(router.sources) = 2
    /\ \A k \in 1..2 : /\ router.sources[k].source.kind = "osc"
                       /\ ~router.sources[k].source.active
    /\ Len(r_last.rendered) = 2
    /\ router.scratch[1][2] # 0
    /\ r_output = <<0, 0>>

\* C36: with exact sample arithmetic the output of a process call does not
\* depend on the bus assignment: whatever the bus indices of the sources
\* and the bus count of the router, each output sample is the sum over all
\* sources of what the source rendered times its gain (times its pan gain
\* on a stereo router), in which no bus appears; so two routers that hold
\* the same sources with the same gains and pans produce identical output.
C36_BusAssignmentIrrelevant ==
    Processed =>
        \A c \in 1..router.channels, i \in 1..r_last.frames :
            r_output[(i - 1) * router.channels + c] =
                MixOf(router.sources, r_last.rendered, router.channels, c, i)

\* a mono call on two sources that sit on two different buses, both heard
C36_Witness ==
    /\ Processed /\ router.channels = 1 /\ r_last.frames = 2
    /\ router.num_buses = 2 /\ Len(router.sources) = 2
    /\ router.sources[1].bus = 0 /\ router.sources[2].bus = 1
    /\ \A k \in 1..2 : r_last.rendered[k][1][1] # 0
    /\ r_output[1] = r_last.rendered[1][1][1] * router.sources[1].gain
                     + r_last.rendered[2][1][1] * router.sources[2].gain

\* C40: a process call never indexes a buffer out of range, whatever the
\* length of the output: it returns also when the frame count exceeds the
\* max_frames the router was built with, and when the length is not a
\* multiple of the channel count it writes the first frames * channels
\* samples and leaves the trailing ones as they were.
C40_AnyLengthIsSafe ==
    r_last.op = "process" =>
        /\ r_last.status = "returned"
        /\ Len(r_output) = r_last.len
        /\ \A j \in 1..r_last.len :
              j > r_last.frames * router.channels => r_output[j] = Stale

(***************************************************************************)
(* Properties of the ADSR envelope                                         *)
(***************************************************************************)
InUnitInterval(x) == RLe(Zero, x) /\ RLe(x, One)

Returned == env_obs.ret

\* C12: after any sequence of envelope operations, every value returned by
\* get_value and the stored current value lie in [0, 1], also when a timing
\* parameter or the sample rate changes in the middle of a stage.
C12_ValueInUnitInterval ==
    /\ InUnitInterval(env.current_value)
    /\ \A i \in DOMAIN Returned : InUnitInterval(Returned[i])

\* a get_value that ended a Decay whose count was cut while it was running
C12_Witness ==
    /\ env_obs.op = "get_value"
    /\ env.state = "Sustain"
    /\ env.decay_samples > 0
    /\ env.current_sample > env.decay_samples
    /\ Returned = <<env.sustain_level>>
    /\ env.sustain_level = Rat(1, 2)

\* C13: at a constant sample rate, with counts > 0 and nothing but get_value
\* calls in between, Attack lasts exactly attack_samples calls and ends in
\* Decay at 1, Decay lasts exactly decay_samples further calls and ends in
\* Sustain at sustain_level, and after note_off the state becomes Finished
\* on exactly the release_samples-th call.
C13_StageLengths ==
    LET k == env_obs.run.k
        a == env.attack_samples
        d == env.decay_samples
        r == env.release_samples
    IN  /\ (env_obs.run.since = "note_on" /\ a > 0) =>
            /\ k < a => env.state = "Attack"
            /\ k = a => env.state = "Decay" /\ env.current_value = One
            /\ (d > 0 /\ a < k /\ k < a + d) => env.state = "Decay"
            /\ (d > 0 /\ k = a + d) =>
                   /\ env.state = "Sustain"
                   /\ env.current_value = env.sustain_level
        /\ (env_obs.run.since = "note_off" /\ r > 0) =>
            /\ k < r => env.state = "Release"
            /\ k = r => env.state = "Finished"

C13_Witness ==
    /\ env_obs.run.since = "note_on"
    /\ env.attack_samples = 2
    /\ env.decay_samples = 2
    /\ env_obs.run.k = 4
    /\ env.state = "Sustain"

\* C14 (as stated): once Finished, no operation other than reset() makes the
\* envelope leave Finished or return a non-zero value.
C14_FinishedUntilReset ==
    [][(env.state = "Finished" /\ env_obs'.op # "reset") =>
          /\ env'.state = "Finished"
          /\ \A i \in DOMAIN env_obs'.ret : env_obs'.ret[i] = Zero]_vars

\* C14 (amended): once Finished, get_value returns 0 and the state stays
\* Finished under get_value, note_off, the setters and a fill_buffer that
\* does not retrigger; reset() and note_on() (also the one fired by
\* auto-retrigger) are the operations that leave Finished.
C14_FinishedUntilResetOrNoteOn ==
    [][(/\ env.state = "Finished"
        /\ env_obs'.op \notin {"reset", "note_on"}
        /\ ~(env_obs'.op = "fill_buffer" /\ env_obs'.fired)) =>
          /\ env'.state = "Finished"
          /\ \A i \in DOMAIN env_obs'.ret : env_obs'.ret[i] = Zero]_vars

\* a get_value on an envelope that had already finished its release
C14_Witness ==
    /\ env_obs.op = "get_value"
    /\ env_obs.run.since = "note_off"
    /\ env.release_samples > 0
    /\ env_obs.run.k > env.release_samples
    /\ env.state = "Finished"
    /\ Returned = <<Zero>>

\* C15: during Release the k-th get_value after note_off (1 <= k < N,
\* N = release_samples > 0) returns v0 * (1 - (k - 1)/N), v0 being the value
\* that was current at note_off.
C15_LinearRelease ==
    LET k == env_obs.run.k
        n == env.release_samples
    IN  (/\ env_obs.run.since = "note_off"
         /\ env_obs.op = "get_value"
         /\ n > 0 /\ 1 <= k /\ k < n) =>
            Returned = <<RMul(env_obs.run.v0, RSub(One, Rat(k - 1, n)))>>

\* C16: note_off changes nothing when no note is on or when note-off has
\* already been triggered.
C16_NoteOffIdempotent ==
    [][(env_obs'.op = "note_off" /\ (~env.note_on \/ env.note_off_triggered))
          => env' = env]_vars

\* a second note_off in the middle of a release that did not restart it
C16_Witness ==
    /\ env_obs.op = "note_off"
    /\ env.state = "Release"
    /\ env.current_sample > 0
    /\ env_obs.run.since = "note_off"
    /\ env_obs.run.k = env.current_sample

(***************************************************************************)
(* Properties of the performance monitor                                   *)
(***************************************************************************)
SetMin(S) == CHOOSE x \in S : \A y \in S : x <= y
SetMax(S) == CHOOSE x \in S : \A y \in S : x >= y

GuardsAlive == {t \in RecThreads : mon_thr[t].guard /\ mon_thr[t].pc # "idle"}

\* C17: once every record_callback_duration_nanos call has returned, whatever
\* the interleaving of their compare-and-retry steps, the stored minimum is
\* the smallest and the stored maximum the largest duration recorded since
\* the last reset.
C17_ExtremesNotLost ==
    (AllRecIdle /\ mon_obs.durations # {}) =>
        /\ mon.min_callback_nanos = SetMin(mon_obs.durations)
        /\ mon.max_callback_nanos = SetMax(mon_obs.durations)

\* two recorders have raced: one had to retry, both extremes are stored
C17_Witness ==
    /\ AllRecIdle
    /\ mon_obs.retried
    /\ mon_obs.durations = {0, 1}
    /\ mon.min_callback_nanos = 0
    /\ mon.max_callback_nanos = 1

\* C18 (as stated): callback_count >= durations recorded through guards, with
\* equality whenever no guard is alive.
C18_CountEqualsGuardRecords ==
    /\ mon.callback_count >= mon_obs.guards_recorded
    /\ GuardsAlive = {} => mon.callback_count = mon_obs.guards_recorded

\* C18 (amended): scoped_callback adds exactly one to callback_count when the
\* guard is created and every guard records exactly one duration, at its
\* release; so callback_count less the direct increment_callback_count calls
\* is the number of guards created, which is >= the durations recorded
\* through guards, with equality whenever no guard is alive.
C18_CountEqualsGuardsCreated ==
    /\ mon.callback_count = mon_obs.guards_created + mon_obs.direct
    /\ mon_obs.guards_created =
           mon_obs.guards_recorded + Cardinality(GuardsAlive)
    /\ mon.callback_count - mon_obs.direct >= mon_obs.guards_recorded
    /\ GuardsAlive = {} =>
           mon.callback_count - mon_obs.direct = mon_obs.guards_recorded

\* one guard has recorded, another is still alive
C18_Witness ==
    /\ mon_obs.guards_recorded = 1
    /\ Cardinality(GuardsAlive) = 1
    /\ mon.callback_count = 2
    /\ \E t \in RecThreads : mon_thr[t].pc = "guard"

\* a cumulative counter that was positive and is now zero
Zeroed(old, new) == old > 0 /\ new = 0

\* C19: snapshot(false) changes no field; snapshot(true) returns the values
\* from before the reset and resets only min, max and the EMA; only
\* reset_all zeroes the cumulative counters.
C19_SnapshotEffects ==
    [][/\ mon_obs'.op = "snapshot" => mon' = mon
       /\ mon_obs'.op = "snapshot_reset" =>
            /\ mon'.frames_processed = mon.frames_processed
            /\ mon'.callback_count = mon.callback_count
            /\ mon'.underrun_count = mon.underrun_count
            /\ mon'.overrun_count = mon.overrun_count
            /\ mon'.min_callback_nanos = U64_MAX
            /\ mon'.max_callback_nanos = 0
            /\ mon'.ema = 0
       /\ mon_obs'.op \in {"snapshot", "snapshot_reset"} =>
            /\ mon_obs'.snapshot.frames_processed = mon.frames_processed
            /\ mon_obs'.snapshot.callback_count = mon.callback_count
            /\ mon_obs'.snapshot.underrun_count = mon.underrun_count
            /\ mon_obs'.snapshot.overrun_count = mon.overrun_count
            /\ mon_obs'.snapshot.ema_callback_nanos = mon.ema
            /\ mon.min_callback_nanos # U64_MAX =>
                 mon_obs'.snapshot.min_callback_nanos = {mon.min_callback_nanos}
            /\ mon.max_callback_nanos # 0 =>
                 mon_obs'.snapshot.max_callback_nanos = {mon.max_callback_nanos}
       /\ (\/ Zeroed(mon.frames_processed, mon'.frames_processed)
           \/ Zeroed(mon.callback_count, mon'.callback_count)
           \/ Zeroed(mon.underrun_count, mon'.underrun_count)
           \/ Zeroed(mon.overrun_count, mon'.overrun_count)) =>
            mon_obs'.op = "reset_all"]_vars

\* a snapshot(true) that returned the peaks and left the counters alone
C19_Witness ==
    /\ mon_obs.op = "snapshot_reset"
    /\ mon_obs.snapshot.max_callback_nanos = {2}
    /\ mon_obs.snapshot.min_callback_nanos = {1}
    /\ mon.max_callback_nanos = 0
    /\ mon.min_callback_nanos = U64_MAX
    /\ mon.callback_count = 1
    /\ mon.frames_processed = 1

\* C29: every record_callback_duration_nanos call applies exactly one EMA
\* step alpha * nanos + (1 - alpha) * EMA_old: under any interleaving the
\* stored EMA is what the steps applied so far give when replayed one after
\* another in the order their exchanges succeeded; once every call has
\* returned, each call has applied its step once, none twice; with
\* alpha = 1 the EMA is the duration of the call whose exchange succeeded
\* last.
C29_EmaStepsSerialised ==
    /\ mon.ema = mon_obs.ema_seq
    /\ \A d \in MonDurations : mon_obs.applied[d] <= mon_obs.entered[d]
    /\ AllRecIdle => mon_obs.applied = mon_obs.entered
    /\ mon.alpha_inv = 1 =>
          \A d \in mon_obs.last_applied : mon.ema = d * EmaUnit

\* two calls with alpha = 1/2, one of which found the EMA changed under it
\* and retried: 0 -> 1 -> 1.5 or 0 -> 0.5 -> 1.5 ... both steps are in
C29_Witness ==
    /\ AllRecIdle
    /\ mon_obs.ema_retried
    /\ mon.alpha_inv = 2
    /\ mon_obs.applied[1] = 1 /\ mon_obs.applied[2] = 1
    /\ mon.ema \in {(5 * EmaUnit) \div 4, EmaUnit}


\* C37: a snapshot reports min_callback_nanos and max_callback_nanos as
\* absent exactly when no duration has been recorded since construction or
\* the last peak reset: after at least one recorded duration of any value
\* in 0..=u64::MAX both are present, and min <= max.
C37_PeaksAbsentIffNothingRecorded ==
    [][mon_obs'.op \in {"snapshot", "snapshot_reset"} =>
         LET snap == mon_obs'.snapshot
             recorded == mon_obs.durations
         IN  /\ (snap.min_callback_nanos = {}) = (recorded = {})
             /\ (snap.max_callback_nanos = {}) = (recorded = {})
             /\ \A lo \in snap.min_callback_nanos,
                   hi \in snap.max_callback_nanos : lo <= hi]_vars

(***************************************************************************)
(* Properties of the oscillator                                            *)
(***************************************************************************)
\* C20: the stored phase lies in [0, 1) after construction, after
\* set_phase / with_phase with any value and after any number of fill_buffer
\* or next_sample calls, for any frequency and any positive sample rate.
C20_PhaseInUnitInterval ==
    0 <= oscillator.phase /\ oscillator.phase < PhaseUnits

\* C21: while the oscillator is inactive, every sample that fill_buffer or
\* next_sample generates is silence and generating leaves the phase
\* unchanged, so that start resumes from the phase held at stop.
C21_InactiveIsSilentAndHoldsPhase ==
    [][(~oscillator.active
          /\ osc_obs'.op \in {"fill_buffer", "next_sample"}) =>
            /\ \A j \in DOMAIN osc_obs'.out : osc_obs'.out[j] = 0
            /\ oscillator'.phase = oscillator.phase]_vars

(***************************************************************************)
(* Properties of the noise generators                                      *)
(***************************************************************************)
\* frames drawn by a sequence of calls: those of the fill_buffer calls made
\* while the generator was started
RECURSIVE FramesDrawn(_, _, _)
FramesDrawn(ops, k, active) ==
    IF k > Len(ops) THEN 0
    ELSE IF ops[k].op = "fill_buffer"
         THEN (IF active THEN ops[k].frame_count ELSE 0)
              + FramesDrawn(ops, k + 1, active)
         ELSE FramesDrawn(ops, k + 1, ops[k].op = "start")

RECURSIVE LcgSteps(_, _)
LcgSteps(state, n) == IF n = 0 THEN state ELSE LcgSteps(next_u32(state), n - 1)

C32_BurstLastsItsDuration ==
    /\ \A b \in noise_obs.finished : b.lasted = b.duration
    /\ noise_obs.run <= noise.burst_duration
    /\ noise.burst_probability = 0 =>
          /\ noise_obs.gated = 0
          /\ \A j \in DOMAIN noise_obs.buf : noise_obs.buf[j] = 0

\* C33: after every generated sample BrownNoise's integrator lies in
\* [-1, 1], for every seed and any number of samples, and every output
\* sample has magnitude at most the configured amplitude.
C33_BrownStaysInRange ==
    /\ noise.previous_sample >= -BrownUnit
    /\ noise.previous_sample <= BrownUnit
    /\ \A j \in DOMAIN noise_obs.buf :
          /\ noise_obs.buf[j] <= noise.amplitude * BrownUnit
          /\ noise_obs.buf[j] >= -(noise.amplitude * BrownUnit)

\* a frame whose walk left [-1, 1] and was cut back to the edge
C33_Witness ==
    /\ noise_obs.op = "fill_buffer"
    /\ noise_obs.clamped
    /\ noise.previous_sample \in {-BrownUnit, BrownUnit}
    /\ noise_obs.buf[Len(noise_obs.buf)] \in
          {noise.amplitude * BrownUnit, -(noise.amplitude * BrownUnit)}

\* the rng states of PinkNoise's seven generators are pairwise different
PinkIndependent(g) ==
    \A i \in 1..7, j \in 1..7 :
        i # j => g.generators[i].rng # g.generators[j].rng

\* C34: after reset, a WhiteNoise built with with_seed(s), a BrownNoise
\* built with with_seed(s) and a PinkNoise are in the state of a freshly
\* constructed generator of the same kind with the same seed, so they
\* produce the same output sequence; PinkNoise's seven generators are
\* again in pairwise different states.
C34_ResetRestoresFresh ==
    (noise_obs.op = "reset" /\ noise_obs.kind \in {"white", "pink", "brown"})
        => /\ noise = noise_obs.fresh
           /\ noise_obs.kind = "pink" => PinkIndependent(noise)

\* C35: while a noise generator of any kind is stopped, fill_buffer writes
\* only zeros and leaves the generator unchanged; stop and start change
\* nothing but the activity; so whatever was asked for while it was
\* stopped, the generator is where the frames it generated while started
\* have taken it from its construction or last reset.
C35_StoppedKeepsState ==
    [][/\ (noise_obs'.op = "fill_buffer" /\ ~noise.active) =>
            /\ noise' = noise
            /\ Len(noise_obs'.buf) =
                  noise_obs'.frame_count * noise_obs'.channels
            /\ \A j \in DOMAIN noise_obs'.buf : noise_obs'.buf[j] = 0
       /\ noise_obs'.op \in {"stop", "start"} =>
            /\ GenStop(noise_obs.kind, noise') = GenStop(noise_obs.kind, noise)
            /\ noise'.active = (noise_obs'.op = "start")
       /\ GenStop(noise_obs.kind, noise') =
             GenStop(noise_obs.kind,
                     GenFillBuffer(noise_obs.kind, noise_obs'.base, 1,
                                   noise_obs'.drawn).source)]_vars

\* a PinkNoise that was asked for frames while stopped, was started again
\* and has generated a buffer since, after an earlier one
C35_Witness ==
    /\ noise_obs.kind = "pink"
    /\ noise_obs.op = "fill_buffer"
    /\ noise.active
    /\ noise_obs.idle_frames > 0
    /\ noise_obs.drawn > noise_obs.frame_count
    /\ noise_obs.buf[1] # 0

(***************************************************************************)
(* Properties of parameter ranges                                          *)
(***************************************************************************)
\* C23: out-of-range parameter values are clamped where they are assigned;
\* in particular the value of every Pan the router uses lies in [-1, 1],
\* so both of its pan gains are non-negative.
C23_PanClampedWhenAssigned ==
    \A k \in DOMAIN router.sources :
        /\ router.sources[k].pan.value \in -2..2
        /\ PanGains(router.sources[k].pan)[1] >= 0
        /\ PanGains(router.sources[k].pan)[2] >= 0

(***************************************************************************)
(* Properties of the pan laws                                              *)
(***************************************************************************)
\* C24: for the Linear law and every v in [-1, 1], gains returns
\* ((1 - v)/2, (1 + v)/2): left + right = 1, both gains lie in [0, 1],
\* v = -1 gives (1, 0) and v = 1 gives (0, 1).
C24_LinearGains ==
    (pan_obs.op = "gains" /\ panning.law = "Linear") =>
        LET l == pan_obs.gains[1]
            r == pan_obs.gains[2]
        IN  /\ 4 * l = 1000 * (2 - panning.value)
            /\ 4 * r = 1000 * (2 + panning.value)
            /\ l + r = 1000
            /\ l \in 0..1000 /\ r \in 0..1000
            /\ panning.value = -2 => (l = 1000 /\ r = 0)
            /\ panning.value = 2 => (l = 0 /\ r = 1000)

C24_Witness ==
    /\ pan_obs.op = "gains"
    /\ panning = [value |-> -2, law |-> "Linear"]
    /\ pan_obs.gains = <<1000, 0>>

\* C25: for the EqualPower law and every v in [-1, 1], gains returns
\* (cos t, sin t) with t = (v + 1) * pi/4, so left^2 + right^2 = 1 within
\* tolerance (here one thousandth); the gains cross at v = 0 and are (1, 0)
\* and (0, 1) at the ends.
C25_EqualPowerGains ==
    (pan_obs.op = "gains" /\ panning.law = "EqualPower") =>
        LET l == pan_obs.gains[1]
            r == pan_obs.gains[2]
            power == l * l + r * r
        IN  /\ power - 1000 * 1000 \in -1000..1000
            /\ l \in 0..1000 /\ r \in 0..1000
            /\ panning.value = -2 => (l = 1000 /\ r = 0)
            /\ panning.value = 0 => l = r
            /\ panning.value = 2 => (l = 0 /\ r = 1000)
            /\ panning.value < 0 => l > r
            /\ panning.value > 0 => l < r

C25_Witness ==
    /\ pan_obs.op = "gains"
    /\ panning = [value |-> 1, law |-> "EqualPower"]
    /\ pan_obs.gains = <<383, 924>>

(***************************************************************************)
(* Properties of the envelope's state machine                              *)
(***************************************************************************)
\* the states one or more get_value calls can lead to
GetValueReach(st) ==
    CASE st = "Attack" -> {"Attack", "Decay", "Sustain"}
      [] st = "Decay" -> {"Decay", "Sustain"}
      [] st = "Release" -> {"Release", "Finished"}
      [] OTHER -> {st}

\* C26: the state changes only along these edges: note_on moves any state to
\* Attack; get_value moves Attack to Decay, Decay to Sustain, Release to
\* Finished and otherwise keeps the state; note_off moves Attack, Decay or
\* Sustain to Release; reset moves any state to Idle.  get_value never
\* leaves Idle, Sustain or Finished, the value holds at sustain_level in
\* Sustain, and Release is entered by note_off only.
C26_StateEdges ==
    [][LET op == env_obs'.op
           from == env.state
           to == env'.state
       IN  /\ op = "note_on" => to = "Attack"
           /\ op = "get_value" =>
                /\ \/ to = from
                   \/ <<from, to>> \in {<<"Attack", "Decay">>,
                                        <<"Decay", "Sustain">>,
                                        <<"Release", "Finished">>}
                /\ from \in {"Idle", "Sustain", "Finished"} => to = from
                /\ from = "Sustain" => env_obs'.ret = <<env.sustain_level>>
           /\ op = "note_off" =>
                to = (IF from \in {"Attack", "Decay", "Sustain"}
                      THEN "Release" ELSE from)
           /\ op = "reset" => to = "Idle"
           /\ op = "fill_buffer" =>
                to \in GetValueReach(IF env_obs'.fired THEN "Attack"
                                     ELSE from)
           /\ op \in {"set_attack_time", "set_decay_time",
                      "set_sustain_level", "set_release_time"} => to = from
           /\ (to = "Release" /\ from # "Release") => op = "note_off"]_vars

\* a note held in Sustain through a get_value, after attack and decay
C26_Witness ==
    /\ env_obs.op = "get_value"
    /\ env.state = "Sustain"
    /\ env.attack_samples > 0
    /\ env.decay_samples > 0
    /\ env_obs.run.since = "note_on"
    /\ env_obs.run.k > env.attack_samples + env.decay_samples
    /\ env_obs.ret = <<env.sustain_level>>

\* C27: a stage whose sample count is 0 takes exactly one get_value call
\* and jumps to its end value: Attack returns 1 and moves to Decay, Decay
\* returns sustain_level and moves to Sustain, Release returns 0 and moves
\* to Finished.
C27_ZeroLengthStages ==
    [][env_obs'.op = "get_value" =>
         /\ (env.state = "Attack" /\ env'.attack_samples = 0) =>
                (env_obs'.ret = <<One>> /\ env'.state = "Decay")
         /\ (env.state = "Decay" /\ env'.decay_samples = 0) =>
                (env_obs'.ret = <<env.sustain_level>>
                 /\ env'.state = "Sustain")
         /\ (env.state = "Release" /\ env'.release_samples = 0) =>
                (env_obs'.ret = <<Zero>> /\ env'.state = "Finished")]_vars

\* all three stages empty: note_on, three get_value calls with a note_off
\* before the last, which finishes the envelope
C27_Witness ==
    /\ env_obs.op = "get_value"
    /\ env.state = "Finished"
    /\ env.attack_samples = 0
    /\ env.decay_samples = 0
    /\ env.release_samples = 0
    /\ env_obs.run.since = "note_off"
    /\ env_obs.run.k = 1
    /\ env_obs.run.v0 # Zero

\* C39: under get_value calls at a constant sample rate and nothing else,
\* the envelope is in Sustain once attack_samples + decay_samples + 2 calls
\* have followed note_on, and in Finished once max(release_samples, 1)
\* calls have followed a note_off that took effect: it does not stay in
\* Attack, Decay or Release.
C39_StagesEnd ==
    LET k == env_obs.run.k
        r == IF env.release_samples > 1 THEN env.release_samples ELSE 1
    IN  /\ (env_obs.run.since = "note_on"
              /\ k >= env.attack_samples + env.decay_samples + 2) =>
                env.state = "Sustain"
        /\ (env_obs.run.since = "note_off" /\ k >= r) =>
                env.state = "Finished"
        /\ (env_obs.run.since = "note_off" /\ k < r) =>
                env.state = "Release"

\* attack and decay of one sample each: Sustain is held on the fourth call
\* after note_on
C39_Witness ==
    /\ env_obs.run.since = "note_on"
    /\ env.attack_samples = 1
    /\ env.decay_samples = 1
    /\ env_obs.run.k = 4
    /\ env.state = "Sustain"
    /\ env_obs.op = "get_value"

\* C28: EnvelopedSource::fill_buffer fires note_on, before any sample,
\* exactly when auto-retrigger is enabled, the wrapped source is active and
\* the envelope is Idle or Finished; with auto-retrigger disabled it never
\* fires, and an envelope that is Idle or Finished then yields only zeros.
C28_RetriggerExactlyWhen ==
    [][env_obs'.op = "fill_buffer" =>
         /\ env_obs'.fired = (/\ env_obs'.auto_retrigger
                              /\ env_obs'.source_active
                              /\ env.state \in {"Idle", "Finished"})
         /\ env_obs'.fired =>
                (env'.note_on /\ env'.state \in GetValueReach("Attack"))
         /\ (~env_obs'.auto_retrigger
               /\ env.state \in {"Idle", "Finished"}) =>
                /\ \A i \in DOMAIN env_obs'.ret : env_obs'.ret[i] = Zero
                /\ env'.state = env.state]_vars

\* an envelope at rest after three calls, retriggered by the next buffer,
\* whose first sample is already the top of an empty attack
C28_Witness ==
    /\ env_obs.op = "fill_buffer"
    /\ env_obs.ops = 4
    /\ env_obs.fired
    /\ env_obs.auto_retrigger /\ env_obs.source_active
    /\ env.release_samples = 0
    /\ env_obs.ret[1] = One


====
